---- MODULE Spec2Model ----
(***************************************************************************)
(* The animation state machine of Background (SophonAnimation.ts).         *)
(*                                                                         *)
(* Units.  Time is counted in ticks of 1/600 s, so that every timing       *)
(* constant of the source (6.5 s, 1.2 s, 0.5 s, 3.65 s, 2000 ms) and a     *)
(* 60 Hz frame (10 ticks) are whole numbers.  Progress ratios, heights     *)
(* and radii are held in thousandths (1.0 is 1000, 4.5 is 4500); a         *)
(* quotient is rounded down, which keeps every ">= 1" / "<= 0" test of     *)
(* the source exact because the divisors are the thresholds themselves.    *)
(***************************************************************************)
EXTENDS Integers, Sequences, FiniteSets, TLC

VARIABLES
    animationStep, stepProgress, unwrappingT, sphereYs, reverseStartYs,
    eyeToCircleProgress, circleDrawProgress, goreDrawProgress,
    currentPlacementProgress,
    wireframeTransitioning, wireframeTransitionProgress,
    wireframeTransitionTarget, wireframeMode,
    glowOutlineActive, glowOutlineProgress, glowPulseIntensity,
    glowPostAnimating, glowPostElapsed,
    pendingBallSpawn, ballsSpawned, ballsManager, balls,
    stageText, fgTextInit, unwrTextInit, stageTextContent,
    goreGeom, goreY, circleOutlines,
    lastCall, goreCalls, completeCalls, simFrames,
    posAttr, scene, ball, ret, companyName, reverseEnabled, app, win

vars == <<animationStep, stepProgress, unwrappingT, sphereYs, reverseStartYs,
          eyeToCircleProgress, circleDrawProgress, goreDrawProgress,
          currentPlacementProgress,
          wireframeTransitioning, wireframeTransitionProgress,
          wireframeTransitionTarget, wireframeMode,
          glowOutlineActive, glowOutlineProgress, glowPulseIntensity,
          glowPostAnimating, glowPostElapsed,
          pendingBallSpawn, ballsSpawned, ballsManager, balls,
          stageText, fgTextInit, unwrTextInit, stageTextContent,
          goreGeom, goreY, circleOutlines,
          lastCall, goreCalls, completeCalls, simFrames,
          posAttr, scene, ball, ret, companyName, reverseEnabled, app, win>>

(* The variables of the ball geometry (BallsManager): the vertices of the
   gore a ball is put on, the other meshes of the scene as the gore sees
   them, the ball, and the value returned by the last geometry function. *)
geoVars == <<posAttr, scene, ball, ret>>

----------------------------------------------------------------------------
(* Bounds of the exploration *)

\* largest value of stepProgress the exploration follows (10 s)
MaxStepProgress == 6000
\* number of 60 Hz frames followed by the fixed-step run
MaxFrames == 1120

(* Frame deltas tried by the free-running specification, in ticks: a repeated
   timestamp, 2/3 s (reaches 2.0 s, 4.0 s and 8.0 s exactly and overshoots
   6.5 s), and 10 s (overshoots every duration in one frame). *)
FrameDts == {0, 400, 6000}
\* 1/60 s: 600 ticks per second over 60 frames per second
FixedDt == 600 \div 60

(* detail.progress and detail.intensity values carried by the window events,
   in thousandths, with values outside 0..1 *)
EventProgresses == {-500, 500, 1500}
EventIntensities == {-200, 300, 2000}

----------------------------------------------------------------------------
(* Program constants *)

D_INITIAL_CIRCLES_MOVE == 3900
D_FORMING_GORES == 1200
D_UNWRAPPING == 4800
D_WRAPPING == 4800
D_DEFORMING_GORES == 1200

stepDurations ==
    [INITIAL_CIRCLES_MOVE |-> D_INITIAL_CIRCLES_MOVE,
     FORMING_GORES |-> D_FORMING_GORES,
     UNWRAPPING |-> D_UNWRAPPING,
     WRAPPING |-> D_WRAPPING,
     DEFORMING_GORES |-> D_DEFORMING_GORES]

STAGE_TYPE_SEC == 720
STAGE_BACK_SEC == 300
STAGE_HOLD_FIRST_SEC == 600
STAGE_HOLD_SECOND_SEC == 480
morphSec == 600
glowPostDurationMs == 1200
targetBottom == 2300
largeCenter == 4500
numGores == 9

sphereRadius == <<2200, 1400, 750>>

Steps == {"INITIAL_CIRCLES_MOVE", "FORMING_GORES", "UNWRAPPING",
          "UNWRAPPED_IDLE", "WRAPPING", "DEFORMING_GORES", "EYE_IDLE"}

TimedSteps == {"INITIAL_CIRCLES_MOVE", "FORMING_GORES", "UNWRAPPING",
               "WRAPPING", "DEFORMING_GORES"}

\* length of a stage word (String.length)
WordLength(w) ==
    CASE w = "OBSERVE" -> 7
      [] w = "DISCOVER" -> 8
      [] w = "TRANSFORM" -> 9
      [] OTHER -> 0

----------------------------------------------------------------------------
(* Arithmetic helpers *)

Min(a, b) == IF a < b THEN a ELSE b
Max(a, b) == IF a > b THEN a ELSE b

\* THREE.MathUtils.clamp(x, 0, 1) and Math.max(0, Math.min(1, x))
clamp01(x) == Max(0, Min(1000, x))

\* elapsed / total as a ratio in thousandths
Ratio(elapsed, total) == (elapsed * 1000) \div total

lerp(a, b, t) == a + ((b - a) * t) \div 1000

easeInOutCubic(t) ==
    IF t < 500
    THEN (4 * t * t * t) \div 1000000
    ELSE 1000 - ((2000 - 2 * t) * (2000 - 2 * t) * (2000 - 2 * t)) \div 2000000

(* Math.sin(Math.PI * x) for x in 0..1, in thousandths ROUNDED UP, so that a
   positive double stays positive in the model: the source tests
   "twistAmount > 0".  Math.PI is the double just below pi, hence
   Math.sin(Math.PI * 1) is 1.2246467991473532e-16, not 0; rounded up to the
   next thousandth that is 1.  Inside the interval the sine is taken from
   Bhaskara's rational form 16x(1-x) / (5 - 4x(1-x)). *)
sinPi(x) ==
    IF x = 0 THEN 0
    ELSE IF x = 1000 THEN 1
    ELSE LET p == x * (1000 - x)
         IN  (4000 * p + (1250000 - p) - 1) \div (1250000 - p)

----------------------------------------------------------------------------
(* The Background object as a record, so that a handler's statements can be
   applied one after the other. *)

this ==
    [animationStep |-> animationStep, stepProgress |-> stepProgress,
     unwrappingT |-> unwrappingT, sphereYs |-> sphereYs,
     reverseEnabled |-> reverseEnabled,
     reverseStartYs |-> reverseStartYs,
     eyeToCircleProgress |-> eyeToCircleProgress,
     circleDrawProgress |-> circleDrawProgress,
     goreDrawProgress |-> goreDrawProgress,
     currentPlacementProgress |-> currentPlacementProgress,
     wireframeTransitioning |-> wireframeTransitioning,
     wireframeTransitionProgress |-> wireframeTransitionProgress,
     wireframeTransitionTarget |-> wireframeTransitionTarget,
     wireframeMode |-> wireframeMode,
     glowOutlineActive |-> glowOutlineActive,
     glowOutlineProgress |-> glowOutlineProgress,
     glowPulseIntensity |-> glowPulseIntensity,
     glowPostAnimating |-> glowPostAnimating,
     glowPostElapsed |-> glowPostElapsed,
     pendingBallSpawn |-> pendingBallSpawn, ballsSpawned |-> ballsSpawned,
     ballsManager |-> ballsManager, balls |-> balls,
     stageText |-> stageText, fgTextInit |-> fgTextInit,
     unwrTextInit |-> unwrTextInit, stageTextContent |-> stageTextContent,
     goreGeom |-> goreGeom, goreY |-> goreY,
     circleOutlines |-> circleOutlines,
     goreCalls |-> <<>>, completeCalls |-> 0]

BecomeBackground(t) ==
    /\ animationStep' = t.animationStep
    /\ stepProgress' = t.stepProgress
    /\ unwrappingT' = t.unwrappingT
    /\ sphereYs' = t.sphereYs
    /\ reverseEnabled' = t.reverseEnabled
    /\ reverseStartYs' = t.reverseStartYs
    /\ eyeToCircleProgress' = t.eyeToCircleProgress
    /\ circleDrawProgress' = t.circleDrawProgress
    /\ goreDrawProgress' = t.goreDrawProgress
    /\ currentPlacementProgress' = t.currentPlacementProgress
    /\ wireframeTransitioning' = t.wireframeTransitioning
    /\ wireframeTransitionProgress' = t.wireframeTransitionProgress
    /\ wireframeTransitionTarget' = t.wireframeTransitionTarget
    /\ wireframeMode' = t.wireframeMode
    /\ glowOutlineActive' = t.glowOutlineActive
    /\ glowOutlineProgress' = t.glowOutlineProgress
    /\ glowPulseIntensity' = t.glowPulseIntensity
    /\ glowPostAnimating' = t.glowPostAnimating
    /\ glowPostElapsed' = t.glowPostElapsed
    /\ pendingBallSpawn' = t.pendingBallSpawn
    /\ ballsSpawned' = t.ballsSpawned
    /\ ballsManager' = t.ballsManager
    /\ balls' = t.balls
    /\ stageText' = t.stageText
    /\ fgTextInit' = t.fgTextInit
    /\ unwrTextInit' = t.unwrTextInit
    /\ stageTextContent' = t.stageTextContent
    /\ goreGeom' = t.goreGeom
    /\ goreY' = t.goreY
    /\ circleOutlines' = t.circleOutlines
    /\ goreCalls' = t.goreCalls
    /\ completeCalls' = t.completeCalls

\* the object becomes t and the scene graph of the balls is left alone
Become(t) ==
    /\ BecomeBackground(t)
    /\ UNCHANGED geoVars

----------------------------------------------------------------------------
(* Gores, circle outlines, stage text, balls *)

twistEnabled == TRUE

twistAmountOf(t, unfoldProgress) ==
    IF twistEnabled /\ t.animationStep = "UNWRAPPING"
    THEN sinPi(clamp01(unfoldProgress))
    ELSE 0

(* applyHelicalTwist returns at once for amount01 <= 0; otherwise every vertex
   is turned by amount01 * twistTurns * 2 pi * yNorm.  The geometry keeps the
   amount it was built with. *)
applyHelicalTwist(geom, amount01) ==
    IF amount01 <= 0 THEN geom ELSE [geom EXCEPT !.twistAmount = amount01]

skipEdgeCreation == TRUE

\* createGoreEdges: no edges geometry when edge creation is skipped
createGoreEdges(skip) == IF skip THEN <<>> ELSE <<"edges">>

\* the edges are always built while the glow outline is active
edgesOf(t) ==
    createGoreEdges(IF t.glowOutlineActive THEN FALSE ELSE skipEdgeCreation)

\* the wireframe clone added during a transition
transitionWireframeOf(t) ==
    IF t.wireframeTransitionTarget = "wireframe"
       \/ (t.wireframeTransitionTarget = "edges"
           /\ (t.wireframeMode = "wireframe"
               \/ t.wireframeMode = "transitioning_to_wireframe"))
    THEN <<"wireframe">>
    ELSE <<>>

\* the two glow lines of the wireframe mode
glowLinesOf(t) ==
    IF t.glowOutlineActive THEN <<"glowA", "glowB">> ELSE <<>>

(* The overlay children updateGores adds to a reused gore, by the mode the
   object is in at the call. *)
overlaysOf(t) ==
    IF t.wireframeTransitioning
    THEN edgesOf(t) \o transitionWireframeOf(t)
    ELSE IF t.wireframeMode = "wireframe"
    THEN <<"wireframe">> \o glowLinesOf(t)
    ELSE edgesOf(t)

(* The children a gore is created with: in wireframe mode the gore itself is
   the wireframe and has the glow lines only. *)
createdOverlaysOf(t) ==
    IF t.wireframeMode = "none" /\ ~t.wireframeTransitioning
    THEN <<>>
    ELSE IF t.wireframeTransitioning
    THEN edgesOf(t) \o transitionWireframeOf(t)
    ELSE IF t.wireframeMode = "wireframe"
    THEN glowLinesOf(t)
    ELSE edgesOf(t)

\* variant: the reused gores are put at the centre height of their sphere
updateGores_centreY(t, unfoldProgress) ==
    LET twistAmount == twistAmountOf(t, unfoldProgress)
        newGeom == [unfoldProgress |-> unfoldProgress, twistAmount |-> 0,
                    placement |-> t.currentPlacementProgress]
    IN  [t EXCEPT
           !.goreGeom = applyHelicalTwist(newGeom, twistAmount),
           !.goreY = [si \in 1..3 |-> t.sphereYs[si]],
           !.goreCalls = Append(@, [step |-> t.animationStep,
                                    unfoldProgress |-> unfoldProgress,
                                    twistAmount |-> twistAmount,
                                    overlays |-> overlaysOf(t),
                                    created |-> createdOverlaysOf(t)])]

(* updateGores on the 3 x 9 gore meshes that exist after construction (the
   reuse branch): the geometry of every gore is rebuilt from unfoldProgress
   and twisted, and the gore is placed at sphereYs[si] - radius with the
   rotation of currentPlacementProgress.  goreCalls records the call and the
   overlay children it adds to every gore. *)
updateGores(t, unfoldProgress) ==
    LET twistAmount == twistAmountOf(t, unfoldProgress)
        newGeom == [unfoldProgress |-> unfoldProgress, twistAmount |-> 0,
                    placement |-> t.currentPlacementProgress]
    IN  [t EXCEPT
           !.goreGeom = applyHelicalTwist(newGeom, twistAmount),
           !.goreY = [si \in 1..3 |-> t.sphereYs[si] - sphereRadius[si]],
           !.goreCalls = Append(@, [step |-> t.animationStep,
                                    unfoldProgress |-> unfoldProgress,
                                    twistAmount |-> twistAmount,
                                    overlays |-> overlaysOf(t),
                                    created |-> createdOverlaysOf(t)])]

\* number of outline lines in the scene: 5 per sphere, or none
createCircleOutlines(t) ==
    IF t.unwrappingT > 100
       /\ t.animationStep # "INITIAL_CIRCLES_MOVE"
       /\ t.animationStep # "DEFORMING_GORES"
    THEN [t EXCEPT !.circleOutlines = 0]
    ELSE [t EXCEPT !.circleOutlines = 15]

updatePositions(t, progress) ==
    LET t1 == [t EXCEPT !.currentPlacementProgress = progress]
        t2 == updateGores(t1, t1.unwrappingT)
        centerY(si) ==
            IF t2.unwrappingT > 0
            THEN lerp(t2.sphereYs[si], targetBottom + sphereRadius[si],
                      t2.unwrappingT)
            ELSE t2.sphereYs[si]
        t3 == [t2 EXCEPT
                 !.goreY = [si \in 1..3 |-> centerY(si) - sphereRadius[si]],
                 !.goreGeom.placement = progress]
    IN  createCircleOutlines(t3)

\* textContent = stageText.substring(0, len), kept as the word and the length
Shown(word, len) ==
    IF len > 0 THEN [word |-> word, len |-> len] ELSE [word |-> "", len |-> 0]

setStageTextTyping(t, x) ==
    LET len == (WordLength(t.stageText) * clamp01(x)) \div 1000
    IN  [t EXCEPT !.stageTextContent = Shown(t.stageText, len)]

setStageTextBackspacing(t, x) ==
    LET len == Max(0, WordLength(t.stageText)
                      - (WordLength(t.stageText) * clamp01(x)) \div 1000)
    IN  [t EXCEPT !.stageTextContent = Shown(t.stageText, len)]

setStageTextTypingElapsed(t, elapsed, total) ==
    setStageTextTyping(t, clamp01(Ratio(elapsed, total)))

setStageTextBackspacingElapsed(t, elapsed, total) ==
    setStageTextBackspacing(t, clamp01(Ratio(elapsed, total)))

clearStageText(t) == [t EXCEPT !.stageTextContent = Shown("", 0)]

\* variant: the gap of the first word alone
getInterWordGapSec_firstGapOnly ==
    Max(0, D_INITIAL_CIRCLES_MOVE
             - (STAGE_TYPE_SEC + STAGE_HOLD_FIRST_SEC + STAGE_BACK_SEC))

getInterWordGapSec ==
    LET gap1 == D_INITIAL_CIRCLES_MOVE
                  - (STAGE_TYPE_SEC + STAGE_HOLD_FIRST_SEC + STAGE_BACK_SEC)
        gap2 == D_FORMING_GORES - STAGE_BACK_SEC
    IN  Max(0, (gap1 + gap2) \div 2)

getUnwrapHoldToMatchGap ==
    Max(0, D_UNWRAPPING - (STAGE_TYPE_SEC + STAGE_BACK_SEC + getInterWordGapSec))

(* The gores that receive a ball: sphereGroups[0].children[1],
   sphereGroups[1].children[3], sphereGroups[2].children[2]. *)
DefaultBallGores == << <<0, 1>>, <<1, 3>>, <<2, 2>> >>

(* What the regions of a ball are computed from when addBallForGore runs:
   the shape of the gores (hull, exclusion polygons) and the transforms of
   the gores (exclusion polygons, through localToWorld and worldToLocal). *)
goreSnapshot(t) == [geom |-> t.goreGeom, goreY |-> t.goreY]

\* the three calls of addBallForGore, each ball with its gore and its regions
defaultBalls(t) ==
    [i \in 1..Len(DefaultBallGores) |->
        [gore |-> DefaultBallGores[i], regions |-> goreSnapshot(t)]]

spawnDefaultBalls(t) ==
    IF t.ballsSpawned THEN t
    ELSE [t EXCEPT !.ballsManager = TRUE,
                   !.balls = @ \o defaultBalls(t),
                   !.ballsSpawned = TRUE]

----------------------------------------------------------------------------
(* Window event handlers registered by setupEventListeners *)

handleTypingStart(t) ==
    [t EXCEPT !.glowOutlineActive = FALSE, !.glowOutlineProgress = 0]

\* variant: the event's progress is stored as received
handleTypingProgress_noClamp(t, progress) ==
    [t EXCEPT !.glowOutlineProgress = progress]

handleTypingProgress(t, progress) ==
    [t EXCEPT !.glowOutlineProgress = clamp01(progress)]

handleTypingFinished(t) ==
    LET t1 == [t EXCEPT !.glowOutlineActive = TRUE,
                        !.glowOutlineProgress = 0,
                        !.glowPostAnimating = TRUE,
                        !.glowPostElapsed = 0,
                        !.pendingBallSpawn = TRUE]
    IN  updateGores(t1, t1.unwrappingT)

handleGlow(t, intensity) ==
    [t EXCEPT !.glowPulseIntensity = clamp01(intensity)]

handleHidden(t) ==
    LET t1 == [t EXCEPT !.glowOutlineActive = FALSE, !.glowOutlineProgress = 0]
    IN  updateGores(t1, t1.unwrappingT)

----------------------------------------------------------------------------
(* Public triggers *)

\* setReverseEnabled stores the flag; no other statement of the class reads it
setReverseEnabled(t, enabled) ==
    [t EXCEPT !.reverseEnabled = enabled]

\* variant: no guard on the current step
startWrap_noGuard(t) ==
    LET t1 == [t EXCEPT !.animationStep = "WRAPPING",
                        !.stepProgress = 0,
                        !.reverseStartYs = t.sphereYs,
                        !.pendingBallSpawn = FALSE]
    IN  IF t1.ballsManager
        THEN [t1 EXCEPT !.balls = <<>>, !.ballsManager = FALSE,
                        !.ballsSpawned = FALSE]
        ELSE t1

\* variant: the spawn flag is reset and the balls are left alive
startWrap_resetFlagOnly(t) ==
    IF t.animationStep # "UNWRAPPED_IDLE" THEN t
    ELSE [t EXCEPT !.animationStep = "WRAPPING",
                   !.stepProgress = 0,
                   !.reverseStartYs = t.sphereYs,
                   !.pendingBallSpawn = FALSE,
                   !.ballsSpawned = FALSE]

\* variant: the balls manager is left alone
startWrap_keepBalls(t) ==
    IF t.animationStep # "UNWRAPPED_IDLE" THEN t
    ELSE [t EXCEPT !.animationStep = "WRAPPING",
                   !.stepProgress = 0,
                   !.reverseStartYs = t.sphereYs,
                   !.pendingBallSpawn = FALSE]

startWrap(t) ==
    IF t.animationStep # "UNWRAPPED_IDLE" THEN t
    ELSE LET t1 == [t EXCEPT !.animationStep = "WRAPPING",
                             !.stepProgress = 0,
                             !.reverseStartYs = t.sphereYs,
                             !.pendingBallSpawn = FALSE]
         IN  IF t1.ballsManager
             THEN [t1 EXCEPT !.balls = <<>>, !.ballsManager = FALSE,
                             !.ballsSpawned = FALSE]
             ELSE t1

\* variant: no guard on the current step
startUnwrap_noGuard(t) ==
    [t EXCEPT !.eyeToCircleProgress = 0,
              !.circleDrawProgress = 1000,
              !.goreDrawProgress = 0,
              !.wireframeMode = "none",
              !.wireframeTransitioning = FALSE,
              !.wireframeTransitionProgress = 0,
              !.unwrappingT = 0,
              !.sphereYs = <<4500, 4500, 4500>>,
              !.animationStep = "INITIAL_CIRCLES_MOVE",
              !.stepProgress = 0]

\* variant: only the step is reset, the draw progresses and the clock are kept
startUnwrap_stepOnly(t) ==
    IF t.animationStep # "EYE_IDLE" THEN t
    ELSE [t EXCEPT !.unwrappingT = 0,
                   !.sphereYs = <<4500, 4500, 4500>>,
                   !.animationStep = "INITIAL_CIRCLES_MOVE"]

startUnwrap(t) ==
    IF t.animationStep # "EYE_IDLE" THEN t
    ELSE [t EXCEPT !.eyeToCircleProgress = 0,
                   !.circleDrawProgress = 1000,
                   !.goreDrawProgress = 0,
                   !.wireframeMode = "none",
                   !.wireframeTransitioning = FALSE,
                   !.wireframeTransitionProgress = 0,
                   !.unwrappingT = 0,
                   !.sphereYs = <<4500, 4500, 4500>>,
                   !.animationStep = "INITIAL_CIRCLES_MOVE",
                   !.stepProgress = 0]

----------------------------------------------------------------------------
(* One branch of the switch in animate per animation step; stepProgress has
   already been advanced by dt. *)

caseInitialCirclesMove(t) ==
    LET sp == t.stepProgress
        total == D_INITIAL_CIRCLES_MOVE
        typeSec == STAGE_TYPE_SEC
        holdSec == STAGE_HOLD_FIRST_SEC
        yMoveSec == Max(0, total - (typeSec + holdSec + morphSec))
        held == [t EXCEPT !.eyeToCircleProgress = 0,
                          !.sphereYs = <<4500, 4500, 4500>>]
        rem == sp - (typeSec + holdSec + morphSec)
        t3 == IF yMoveSec > 0 THEN clamp01(Ratio(rem, yMoveSec)) ELSE 1000
        tE == easeInOutCubic(t3)
        rLarge == sphereRadius[1]
        rMed == sphereRadius[2]
        rSmall == sphereRadius[3]
        smallAlignsToMediumCenter == largeCenter + (rSmall - rMed)
        mediumAlignsToLargeCenter == largeCenter + (rMed - rLarge)
        smallAlignsToLargeCenter == largeCenter + (rSmall - rLarge)
        ys == IF tE < 500
              THEN <<largeCenter, largeCenter,
                     lerp(largeCenter, smallAlignsToMediumCenter, 2 * tE)>>
              ELSE <<largeCenter,
                     lerp(largeCenter, mediumAlignsToLargeCenter,
                          2 * (tE - 500)),
                     lerp(smallAlignsToMediumCenter, smallAlignsToLargeCenter,
                          2 * (tE - 500))>>
        t1 == IF sp < typeSec
              THEN setStageTextTypingElapsed(held, sp, typeSec)
              ELSE IF sp < typeSec + holdSec
              THEN setStageTextTyping(held, 1000)
              ELSE IF sp < typeSec + holdSec + morphSec
              THEN setStageTextBackspacingElapsed(
                       [held EXCEPT !.eyeToCircleProgress =
                                       Ratio(sp - typeSec - holdSec, morphSec)],
                       sp - typeSec - holdSec, STAGE_BACK_SEC)
              ELSE [clearStageText([t EXCEPT !.eyeToCircleProgress = 1000])
                      EXCEPT !.sphereYs = ys]
        t2 == updatePositions(t1, 0)
    IN  IF sp >= total
        THEN [t2 EXCEPT !.animationStep = "FORMING_GORES",
                        !.stepProgress = 0,
                        !.goreDrawProgress = 0,
                        !.circleDrawProgress = 1000,
                        !.wireframeMode = "none",
                        !.wireframeTransitionTarget = "wireframe",
                        !.wireframeTransitioning = TRUE,
                        !.wireframeTransitionProgress = 0,
                        !.unwrappingT = 0,
                        !.fgTextInit = FALSE]
        ELSE t2

(* The FORMING_GORES branch for given typing and hold times: the word is
   typed and held first, the gores are drawn over goreDur after that. *)
formingGores(t, typeSec, holdSec) ==
    LET t0 == IF ~t.fgTextInit
              THEN [t EXCEPT !.stageText = "DISCOVER", !.fgTextInit = TRUE]
              ELSE t
        sp == t0.stepProgress
        goreDur == D_FORMING_GORES
        waiting(u) == [u EXCEPT !.goreDrawProgress = 0,
                                !.circleDrawProgress = 1000,
                                !.wireframeTransitionTarget = "wireframe",
                                !.wireframeTransitioning = TRUE,
                                !.wireframeTransitionProgress = 0,
                                !.unwrappingT = 0,
                                !.currentPlacementProgress = 0]
        tg == Min(1000, Ratio(sp - typeSec - holdSec, goreDur))
        d1 == createCircleOutlines([t0 EXCEPT !.goreDrawProgress = tg,
                                              !.circleDrawProgress = 1000 - tg])
        d2 == updateGores([d1 EXCEPT !.wireframeTransitionTarget = "wireframe",
                                     !.wireframeTransitioning = TRUE,
                                     !.wireframeTransitionProgress = tg,
                                     !.unwrappingT = 0,
                                     !.currentPlacementProgress = 0], 0)
        d3 == setStageTextBackspacingElapsed(d2, sp - typeSec - holdSec,
                                             STAGE_BACK_SEC)
        d4 == updateGores([d3 EXCEPT !.wireframeMode = "wireframe",
                                     !.wireframeTransitioning = FALSE,
                                     !.wireframeTransitionProgress = 1000,
                                     !.goreDrawProgress = 1000,
                                     !.circleDrawProgress = 0,
                                     !.unwrappingT = 0], 0)
    IN  IF sp < typeSec
        THEN createCircleOutlines(
                 updateGores(waiting(setStageTextTypingElapsed(t0, sp, typeSec)), 0))
        ELSE IF sp < typeSec + holdSec
        THEN updateGores(waiting(setStageTextTyping(t0, 1000)), 0)
        ELSE IF tg >= 1000
        THEN clearStageText([d4 EXCEPT !.animationStep = "UNWRAPPING",
                                       !.stepProgress = 0,
                                       !.unwrTextInit = FALSE])
        ELSE d3

\* variant: the gores are drawn from the start of the step
caseFormingGores_noText(t) == formingGores(t, 0, 0)

caseFormingGores(t) == formingGores(t, STAGE_TYPE_SEC, STAGE_HOLD_SECOND_SEC)

(* onAnimationComplete is the caller's callback.  App passes one that calls
   CompanyName.show(), which dispatches companyNameTypingStart at once when
   the name is not yet visible (typingStart) and does nothing otherwise. *)
\* variant: the callback is invoked twice
onAnimationComplete_twice(t, typingStart) ==
    LET t1 == [t EXCEPT !.completeCalls = @ + 2]
    IN  IF typingStart THEN handleTypingStart(t1) ELSE t1

onAnimationComplete(t, typingStart) ==
    LET t1 == [t EXCEPT !.completeCalls = @ + 1]
    IN  IF typingStart THEN handleTypingStart(t1) ELSE t1

\* variant: the step ends with its caption and the progress is not pinned
caseUnwrapping_endsWithCaption(t, typingStart) ==
    LET t0 == IF ~t.unwrTextInit
              THEN [t EXCEPT !.stageText = "TRANSFORM", !.unwrTextInit = TRUE]
              ELSE t
        t1 == [t0 EXCEPT !.unwrappingT =
                            Min(1000, Ratio(t0.stepProgress, D_UNWRAPPING))]
        t2 == IF t1.wireframeMode # "wireframe"
              THEN [t1 EXCEPT !.wireframeMode = "wireframe",
                              !.wireframeTransitioning = FALSE]
              ELSE t1
        sp2 == t2.stepProgress
        typeSec2 == STAGE_TYPE_SEC
        holdSec2 == getUnwrapHoldToMatchGap
        backSec2 == STAGE_BACK_SEC
        t3 == IF sp2 < typeSec2
              THEN setStageTextTypingElapsed(t2, sp2, typeSec2)
              ELSE IF sp2 < typeSec2 + holdSec2
              THEN setStageTextTyping(t2, 1000)
              ELSE IF sp2 < typeSec2 + holdSec2 + backSec2
              THEN setStageTextBackspacingElapsed(t2, sp2 - typeSec2 - holdSec2,
                                                  backSec2)
              ELSE clearStageText(t2)
        t4 == updatePositions(t3, t3.unwrappingT)
        t5 == onAnimationComplete(t4, typingStart)
        t6 == [t5 EXCEPT !.animationStep = "UNWRAPPED_IDLE", !.stepProgress = 0]
    IN  IF sp2 >= typeSec2 + holdSec2 + backSec2
        THEN IF t6.glowOutlineActive /\ t6.glowOutlineProgress >= 1000
                /\ (t6.pendingBallSpawn \/ ~t6.ballsSpawned)
             THEN [spawnDefaultBalls(t6) EXCEPT !.pendingBallSpawn = FALSE]
             ELSE t6
        ELSE t4

caseUnwrapping(t, typingStart) ==
    LET t0 == IF ~t.unwrTextInit
              THEN [t EXCEPT !.stageText = "TRANSFORM", !.unwrTextInit = TRUE]
              ELSE t
        t1 == [t0 EXCEPT !.unwrappingT =
                            Min(1000, Ratio(t0.stepProgress, D_UNWRAPPING))]
        t2 == IF t1.wireframeMode # "wireframe"
              THEN [t1 EXCEPT !.wireframeMode = "wireframe",
                              !.wireframeTransitioning = FALSE]
              ELSE t1
        sp2 == t2.stepProgress
        typeSec2 == STAGE_TYPE_SEC
        holdSec2 == getUnwrapHoldToMatchGap
        backSec2 == STAGE_BACK_SEC
        t3 == IF sp2 < typeSec2
              THEN setStageTextTypingElapsed(t2, sp2, typeSec2)
              ELSE IF sp2 < typeSec2 + holdSec2
              THEN setStageTextTyping(t2, 1000)
              ELSE IF sp2 < typeSec2 + holdSec2 + backSec2
              THEN setStageTextBackspacingElapsed(t2, sp2 - typeSec2 - holdSec2,
                                                  backSec2)
              ELSE clearStageText(t2)
        t4 == updatePositions(t3, t3.unwrappingT)
        t5 == onAnimationComplete([t4 EXCEPT !.unwrappingT = 1000], typingStart)
        t6 == [t5 EXCEPT !.animationStep = "UNWRAPPED_IDLE", !.stepProgress = 0]
    IN  IF t4.unwrappingT >= 1000
        THEN IF t6.glowOutlineActive /\ t6.glowOutlineProgress >= 1000
                /\ (t6.pendingBallSpawn \/ ~t6.ballsSpawned)
             THEN [spawnDefaultBalls(t6) EXCEPT !.pendingBallSpawn = FALSE]
             ELSE t6
        ELSE t4

\* variant: the pending spawn does not wait for the reveal
caseUnwrappedIdle_noRevealTest(t) ==
    IF t.glowOutlineActive
    THEN LET t1 == updateGores(t, t.unwrappingT)
         IN  IF t1.pendingBallSpawn /\ ~t1.ballsSpawned
             THEN [spawnDefaultBalls(t1) EXCEPT !.pendingBallSpawn = FALSE]
             ELSE t1
    ELSE t

caseUnwrappedIdle(t) ==
    IF t.glowOutlineActive
    THEN LET t1 == updateGores(t, t.unwrappingT)
         IN  IF t1.glowOutlineProgress >= 1000 /\ t1.pendingBallSpawn
                /\ ~t1.ballsSpawned
             THEN [spawnDefaultBalls(t1) EXCEPT !.pendingBallSpawn = FALSE]
             ELSE t1
    ELSE t

\* variant: the progress is not reversed
caseWrapping_forward(t) ==
    LET t1 == [t EXCEPT !.unwrappingT =
                           Min(1000, Ratio(t.stepProgress, D_WRAPPING))]
        t3 == updatePositions(t1, t1.unwrappingT)
        t4 == updateGores([t3 EXCEPT !.unwrappingT = 0], 0)
    IN  IF t3.unwrappingT >= 1000
        THEN [t4 EXCEPT !.animationStep = "DEFORMING_GORES",
                        !.stepProgress = 0,
                        !.wireframeTransitionTarget = "edges",
                        !.wireframeTransitioning = TRUE,
                        !.wireframeTransitionProgress = 0,
                        !.wireframeMode = "wireframe",
                        !.reverseStartYs = t4.sphereYs]
        ELSE t3

caseWrapping(t) ==
    LET t1 == [t EXCEPT !.unwrappingT =
                           1000 - Min(1000, Ratio(t.stepProgress, D_WRAPPING))]
        t2 == IF t1.wireframeMode # "wireframe"
              THEN [t1 EXCEPT !.wireframeMode = "wireframe",
                              !.wireframeTransitioning = FALSE]
              ELSE t1
        t3 == updatePositions(t2, t2.unwrappingT)
        t4 == updateGores([t3 EXCEPT !.unwrappingT = 0], 0)
    IN  IF t3.unwrappingT <= 0
        THEN [t4 EXCEPT !.animationStep = "DEFORMING_GORES",
                        !.stepProgress = 0,
                        !.wireframeTransitionTarget = "edges",
                        !.wireframeTransitioning = TRUE,
                        !.wireframeTransitionProgress = 0,
                        !.wireframeMode = "wireframe",
                        !.reverseStartYs = t4.sphereYs]
        ELSE t3

\* variant: the step ends only once the duration has been exceeded
caseDeformingGores_late(t) ==
    LET tt == Min(1000, Ratio(t.stepProgress, D_DEFORMING_GORES))
        t1 == [t EXCEPT !.circleDrawProgress = tt,
                        !.eyeToCircleProgress = 1000 - tt,
                        !.sphereYs = [si \in 1..3 |->
                                        lerp(t.reverseStartYs[si], 4500, tt)]]
        t3 == updateGores([createCircleOutlines(t1)
                             EXCEPT !.currentPlacementProgress = 0], 0)
    IN  IF t.stepProgress > D_DEFORMING_GORES
        THEN [t3 EXCEPT !.wireframeTransitioning = FALSE,
                        !.wireframeMode = "none",
                        !.animationStep = "EYE_IDLE",
                        !.stepProgress = 0]
        ELSE t3

\* variant: the step has no completion test
caseDeformingGores_noEnd(t) ==
    LET tt == Min(1000, Ratio(t.stepProgress, D_DEFORMING_GORES))
        t1 == [t EXCEPT !.circleDrawProgress = tt,
                        !.eyeToCircleProgress = 1000 - tt,
                        !.sphereYs = [si \in 1..3 |->
                                        lerp(t.reverseStartYs[si], 4500, tt)]]
    IN  updateGores([createCircleOutlines(t1)
                       EXCEPT !.currentPlacementProgress = 0], 0)

caseDeformingGores(t) ==
    LET tt == Min(1000, Ratio(t.stepProgress, D_DEFORMING_GORES))
        targetY == 4500
        t1 == [t EXCEPT !.circleDrawProgress = tt,
                        !.eyeToCircleProgress = 1000 - tt,
                        !.sphereYs = [si \in 1..3 |->
                                        lerp(t.reverseStartYs[si], targetY, tt)]]
        t2 == IF t1.wireframeMode # "edges" \/ t1.wireframeTransitioning
              THEN [t1 EXCEPT !.wireframeTransitioning = TRUE,
                              !.wireframeTransitionTarget = "edges",
                              !.wireframeTransitionProgress = tt]
              ELSE t1
        t3 == updateGores([createCircleOutlines(t2)
                             EXCEPT !.currentPlacementProgress = 0], 0)
    IN  IF tt >= 1000
        THEN [t3 EXCEPT !.wireframeTransitioning = FALSE,
                        !.wireframeMode = "none",
                        !.animationStep = "EYE_IDLE",
                        !.stepProgress = 0]
        ELSE t3

\* variant: the idle eye restarts the forward flow by itself
caseEyeIdle_restart(t) ==
    [t EXCEPT !.unwrappingT = 0,
              !.animationStep = "INITIAL_CIRCLES_MOVE",
              !.stepProgress = 0]

caseEyeIdle(t) ==
    createCircleOutlines(
        updateGores([t EXCEPT !.unwrappingT = 0,
                              !.goreDrawProgress = 0,
                              !.circleDrawProgress = 1000,
                              !.wireframeTransitioning = FALSE,
                              !.wireframeMode = "none",
                              !.currentPlacementProgress = 0], 0))

(* The post-typing glow tween: performance.now() - glowPostStart is
   glowPostElapsed, which the frame finds advanced by its dt. *)
glowPostTween(t, dt) ==
    IF t.glowPostAnimating
    THEN LET elapsed == t.glowPostElapsed + dt
             tt == Min(1000, Ratio(elapsed, glowPostDurationMs))
             t1 == updateGores([t EXCEPT !.glowOutlineProgress = tt], t.unwrappingT)
         IN  IF tt >= 1000
             THEN [t1 EXCEPT !.glowPostAnimating = FALSE, !.glowPostElapsed = 0]
             ELSE [t1 EXCEPT !.glowPostElapsed = elapsed]
    ELSE t

\* variant: no spawn test after the glow tween
animate_noSpawnAfterTween(t, dt, typingStart) ==
    LET t0 == [t EXCEPT !.stepProgress = @ + dt]
        t1 == CASE t0.animationStep = "INITIAL_CIRCLES_MOVE" -> caseInitialCirclesMove(t0)
                [] t0.animationStep = "FORMING_GORES" -> caseFormingGores(t0)
                [] t0.animationStep = "UNWRAPPING" -> caseUnwrapping(t0, typingStart)
                [] t0.animationStep = "UNWRAPPED_IDLE" -> caseUnwrappedIdle(t0)
                [] t0.animationStep = "WRAPPING" -> caseWrapping(t0)
                [] t0.animationStep = "DEFORMING_GORES" -> caseDeformingGores(t0)
                [] t0.animationStep = "EYE_IDLE" -> caseEyeIdle(t0)
                [] OTHER -> t0
    IN  glowPostTween(t1, dt)

\* the frame callback of startAnimation
animate(t, dt, typingStart) ==
    LET t0 == [t EXCEPT !.stepProgress = @ + dt]
        t1 == CASE t0.animationStep = "INITIAL_CIRCLES_MOVE" -> caseInitialCirclesMove(t0)
                [] t0.animationStep = "FORMING_GORES" -> caseFormingGores(t0)
                [] t0.animationStep = "UNWRAPPING" -> caseUnwrapping(t0, typingStart)
                [] t0.animationStep = "UNWRAPPED_IDLE" -> caseUnwrappedIdle(t0)
                [] t0.animationStep = "WRAPPING" -> caseWrapping(t0)
                [] t0.animationStep = "DEFORMING_GORES" -> caseDeformingGores(t0)
                [] t0.animationStep = "EYE_IDLE" -> caseEyeIdle(t0)
                [] OTHER -> t0
        t2 == glowPostTween(t1, dt)
    IN  IF t2.animationStep = "UNWRAPPED_IDLE" /\ t2.pendingBallSpawn
           /\ t2.glowOutlineActive /\ t2.glowOutlineProgress >= 1000
           /\ ~t2.ballsSpawned
        THEN [spawnDefaultBalls(t2) EXCEPT !.pendingBallSpawn = FALSE]
        ELSE t2

----------------------------------------------------------------------------
(* State after construction: field initialisers, then initThreeJS has built
   the gores with updateGores(0) and placed them with updatePositions(0). *)

(* The listeners on window.  win holds the listener list of window, the
   number of functions Function.prototype.bind has returned, whether
   destroy() has run, and the methods the window events have invoked, each
   with the value of destroyed at the time.  A listener is an event type and
   a function; a function is a method of the instance and the number of the
   bind() call that made it, 0 for a closure the constructor keeps. *)

Listener(type, method, bind) ==
    [type |-> type, fn |-> [method |-> method, bind |-> bind]]

addEventListener(w, l) ==
    [w EXCEPT !.listeners = @ \cup {l}]

\* removes the listener with the same type and the same function, if any
removeEventListener(w, l) ==
    [w EXCEPT !.listeners = @ \ {l}]

\* the window listeners the constructor of Background registers
setupEventListeners(w) ==
    [w EXCEPT !.listeners = @ \cup
        {Listener("resize", "handleResize", 0),
         Listener("companyNameTypingStart", "handleTypingStart", 0),
         Listener("companyNameTypingProgress", "handleTypingProgress", 0),
         Listener("companyNameTypingFinished", "handleTypingFinished", 0),
         Listener("companyNameGlow", "handleGlow", 0),
         Listener("companyNameHidden", "handleHidden", 0)}]

NoWindow == [listeners |-> {}, binds |-> 0, destroyed |-> FALSE, log |-> <<>>]

constructed ==
    /\ animationStep = "INITIAL_CIRCLES_MOVE"
    /\ stepProgress = 0
    /\ unwrappingT = 0
    /\ sphereYs = <<4500, 4500, 4500>>
    /\ reverseEnabled = TRUE
    /\ reverseStartYs = <<4500, 4500, 4500>>
    /\ eyeToCircleProgress = 0
    /\ circleDrawProgress = 1000
    /\ goreDrawProgress = 0
    /\ currentPlacementProgress = 0
    /\ wireframeTransitioning = FALSE
    /\ wireframeTransitionProgress = 0
    /\ wireframeTransitionTarget = "edges"
    /\ wireframeMode = "none"
    /\ glowOutlineActive = FALSE
    /\ glowOutlineProgress = 0
    /\ glowPulseIntensity = 300
    /\ glowPostAnimating = FALSE
    /\ glowPostElapsed = 0
    /\ pendingBallSpawn = FALSE
    /\ ballsSpawned = FALSE
    /\ ballsManager = FALSE
    /\ balls = <<>>
    /\ stageText = "OBSERVE"
    /\ fgTextInit = FALSE
    /\ unwrTextInit = FALSE
    /\ stageTextContent = Shown("", 0)
    /\ goreGeom = [unfoldProgress |-> 0, twistAmount |-> 0, placement |-> 0]
    /\ goreY = [si \in 1..3 |-> 4500 - sphereRadius[si]]
    /\ circleOutlines = 15
    /\ lastCall = [op |-> "constructor", dt |-> 0]
    /\ goreCalls = <<>>
    /\ completeCalls = 0
    /\ simFrames = 0
    /\ companyName = [visible |-> FALSE, animation |-> "none", progress |-> 0]
    /\ app = [listening |-> TRUE, scheduled |-> 0, timers |-> 0,
              missionVisible |-> FALSE, overflowY |-> ""]

InitBackground ==
    /\ constructed
    /\ win = setupEventListeners(NoWindow)

\* no ball geometry is looked at by the runs of the animation
Init ==
    /\ InitBackground
    /\ posAttr = <<>>
    /\ scene = <<>>
    /\ ball = <<>>
    /\ ret = <<>>

----------------------------------------------------------------------------
(* Operations *)

Frame(dt, typingStart) ==
    /\ stepProgress + dt <= MaxStepProgress
    /\ Become(animate(this, dt, typingStart))
    /\ lastCall' = [op |-> "animate", dt |-> dt]
    /\ UNCHANGED <<simFrames, companyName, app, win>>

StartWrap ==
    /\ Become(startWrap(this))
    /\ lastCall' = [op |-> "startWrap", dt |-> 0]
    /\ UNCHANGED <<simFrames, companyName, app, win>>

StartUnwrap ==
    /\ Become(startUnwrap(this))
    /\ lastCall' = [op |-> "startUnwrap", dt |-> 0]
    /\ UNCHANGED <<simFrames, companyName, app, win>>

TypingStart ==
    /\ Become(handleTypingStart(this))
    /\ lastCall' = [op |-> "companyNameTypingStart", dt |-> 0]
    /\ UNCHANGED <<simFrames, companyName, app, win>>

TypingProgress(progress) ==
    /\ Become(handleTypingProgress(this, progress))
    /\ lastCall' = [op |-> "companyNameTypingProgress", dt |-> 0]
    /\ UNCHANGED <<simFrames, companyName, app, win>>

TypingFinished ==
    /\ Become(handleTypingFinished(this))
    /\ lastCall' = [op |-> "companyNameTypingFinished", dt |-> 0]
    /\ UNCHANGED <<simFrames, companyName, app, win>>

Glow(intensity) ==
    /\ Become(handleGlow(this, intensity))
    /\ lastCall' = [op |-> "companyNameGlow", dt |-> 0]
    /\ UNCHANGED <<simFrames, companyName, app, win>>

Hidden ==
    /\ Become(handleHidden(this))
    /\ lastCall' = [op |-> "companyNameHidden", dt |-> 0]
    /\ UNCHANGED <<simFrames, companyName, app, win>>

Next ==
    \/ \E dt \in FrameDts, typingStart \in BOOLEAN : Frame(dt, typingStart)
    \/ StartWrap
    \/ StartUnwrap
    \/ TypingStart
    \/ \E progress \in EventProgresses : TypingProgress(progress)
    \/ TypingFinished
    \/ \E intensity \in EventIntensities : Glow(intensity)
    \/ Hidden

Spec == Init /\ [][Next]_vars

(* The fixed-step run: 60 Hz frames only, no trigger and no window event
   other than the one the completion callback dispatches. *)
FrameFixed ==
    /\ simFrames < MaxFrames
    /\ Become(animate(this, FixedDt, TRUE))
    /\ lastCall' = [op |-> "animate", dt |-> FixedDt]
    /\ simFrames' = simFrames + 1
    /\ UNCHANGED <<companyName, app, win>>

NextFixed == FrameFixed

SpecFixed == Init /\ [][NextFixed]_vars

----------------------------------------------------------------------------
(* The page (main.ts): one Background and one CompanyName.  The completion
   callback of the Background calls CompanyName.show(); CompanyName is the
   only dispatcher of the companyName* window events, from show(), from
   hide() and from its two requestAnimationFrame callbacks; the keys w and u
   call startWrap() and startUnwrap().  companyName holds the fields of
   CompanyName: visible, the callback that is scheduled (animationId) and
   the progress the typing callback computed last.  main.ts never calls
   hide(); it is kept as the public method that dispatches
   companyNameHidden. *)

\* min(elapsed / duration, 1) as the typing callback finds it, in thousandths
TypingProgresses == {0, 500, 1000}
\* currentIntensity as the pulse callback broadcasts it, in thousandths
PulseIntensities == {300, 650, 1000}

\* CompanyName.show(): starts the typewriter unless the name is visible
show(c) ==
    IF c.visible
    THEN c
    ELSE [visible |-> TRUE, animation |-> "typewriter", progress |-> 0]

\* CompanyName.hide(): the scheduled callback is cancelled
hide(c) ==
    [c EXCEPT !.visible = FALSE, !.animation = "none"]

(* App.init registers onNameFinished before it constructs the Background.
   app holds what the page keeps besides its components: whether
   onNameFinished is still registered on window, how many times setTimeout
   was called and how many of those timers are pending, MissionStatement's
   visible, and the overflowY the completion callback writes to the body. *)

\* variant: the listener does not remove itself
onNameFinished_keepListener(a) ==
    [a EXCEPT !.scheduled = @ + 1, !.timers = @ + 1]

\* onNameFinished: schedules mission.show() and removes itself
onNameFinished(a) ==
    [a EXCEPT !.scheduled = @ + 1, !.timers = @ + 1, !.listening = FALSE]

\* window.dispatchEvent(companyNameTypingFinished) as the page receives it
dispatchTypingFinished(a) ==
    IF a.listening THEN onNameFinished(a) ELSE a

\* the completion callback App hands to the Background, besides show()
onComplete(a) ==
    [a EXCEPT !.overflowY = "auto"]

InitApp == Init

(* A frame of the Background.  When the unwrap completes in it, the callback
   runs show(), which dispatches companyNameTypingStart when the name was
   not visible. *)
FrameApp(dt) ==
    /\ stepProgress + dt <= MaxStepProgress
    /\ Become(animate(this, dt, ~companyName.visible))
    /\ companyName' = IF completeCalls' > 0
                      THEN show(companyName)
                      ELSE companyName
    /\ app' = IF completeCalls' > 0 THEN onComplete(app) ELSE app
    /\ lastCall' = [op |-> "animate", dt |-> dt]
    /\ UNCHANGED <<simFrames, win>>

(* The typing callback of startTypewriterAnimation: it broadcasts the
   progress and, once the progress is 1, companyNameTypingFinished in the
   same callback, then starts the pulse. *)
TypewriterFrame(progress) ==
    /\ companyName.animation = "typewriter"
    /\ progress >= companyName.progress
    /\ IF progress < 1000 /\ companyName.visible
       THEN /\ Become(handleTypingProgress(this, progress))
            /\ companyName' = [companyName EXCEPT !.progress = progress]
            /\ lastCall' = [op |-> "companyNameTypingProgress", dt |-> 0]
            /\ UNCHANGED app
       ELSE /\ Become(handleTypingFinished(
                        handleTypingProgress(this, progress)))
            /\ companyName' = [companyName EXCEPT !.progress = progress,
                                                  !.animation = "pulse"]
            /\ lastCall' = [op |-> "companyNameTypingFinished", dt |-> 0]
            /\ app' = dispatchTypingFinished(app)
    /\ UNCHANGED <<simFrames, win>>

\* the pulse callback of startPulseAnimation broadcasts the glow intensity
PulseFrame(intensity) ==
    /\ companyName.animation = "pulse"
    /\ companyName.visible
    /\ Become(handleGlow(this, intensity))
    /\ lastCall' = [op |-> "companyNameGlow", dt |-> 0]
    /\ UNCHANGED <<simFrames, companyName, app, win>>

\* CompanyName.hide() dispatches companyNameHidden when the name is visible
Hide ==
    /\ companyName.visible
    /\ Become(handleHidden(this))
    /\ companyName' = hide(companyName)
    /\ lastCall' = [op |-> "companyNameHidden", dt |-> 0]
    /\ UNCHANGED <<simFrames, app, win>>

KeyW ==
    /\ Become(startWrap(this))
    /\ lastCall' = [op |-> "startWrap", dt |-> 0]
    /\ UNCHANGED <<simFrames, companyName, app, win>>

KeyU ==
    /\ Become(startUnwrap(this))
    /\ lastCall' = [op |-> "startUnwrap", dt |-> 0]
    /\ UNCHANGED <<simFrames, companyName, app, win>>

(* The timer of onNameFinished fires: mission.show(), which returns at
   once when the statement is visible.  The Background is not involved. *)
MissionTimer ==
    /\ app.timers > 0
    /\ app' = [app EXCEPT !.timers = @ - 1, !.missionVisible = TRUE]
    /\ Become([this EXCEPT !.goreCalls = goreCalls,
                            !.completeCalls = completeCalls])
    /\ UNCHANGED <<lastCall, simFrames, companyName, win>>

NextApp ==
    \/ \E dt \in FrameDts : FrameApp(dt)
    \/ \E progress \in TypingProgresses : TypewriterFrame(progress)
    \/ \E intensity \in PulseIntensities : PulseFrame(intensity)
    \/ Hide
    \/ KeyW
    \/ KeyU
    \/ MissionTimer

SpecApp == InitApp /\ [][NextApp]_vars

(* Frames keep being delivered: every callback ends by scheduling the next
   one with requestAnimationFrame, and the clock the tween reads moves on.
   FrameDelivered names the steps FrameApp(dt) with dt > 0 by what they
   leave in lastCall; such a step is possible exactly when the guard of
   FrameApp holds, and it always changes stepProgress or animationStep. *)
frameVars == <<lastCall, stepProgress, animationStep>>

FrameDelivered ==
    /\ \E dt \in FrameDts \ {0} :
          /\ stepProgress + dt <= MaxStepProgress
          /\ lastCall' = [op |-> "animate", dt |-> dt]
    /\ stepProgress' \in 0..MaxStepProgress
    /\ animationStep' \in Steps

SpecAppLive ==
    /\ InitApp
    /\ [][NextApp]_vars
    /\ WF_frameVars(FrameDelivered)

----------------------------------------------------------------------------
(* BackgroundMobile: the listeners it registers on window and destroy().
   No code of the repository dispatches stageTextCreated or
   stageTextUpdated; window events are dispatched by the browser (resize)
   or by any script of the page. *)

\* largest number of window events followed
MaxEvents == 3

EventTypes ==
    {"resize", "stageTextCreated", "stageTextUpdated",
     "companyNameTypingStart", "companyNameTypingProgress",
     "companyNameTypingFinished", "companyNameGlow", "companyNameHidden"}

(* setupMobileRoot registers handleStageTextEvent.bind(this) twice: each
   bind() call returns a new function, which no field keeps. *)
setupMobileRoot(w) ==
    LET w1 == addEventListener([w EXCEPT !.binds = @ + 1],
                  Listener("stageTextCreated", "handleStageTextEvent",
                           w.binds + 1))
    IN  addEventListener([w1 EXCEPT !.binds = @ + 1],
            Listener("stageTextUpdated", "handleStageTextEvent",
                     w1.binds + 1))

\* the constructor of BackgroundMobile, after super(): boundResize is kept
constructorMobile(w) ==
    addEventListener(setupMobileRoot(w),
                     Listener("resize", "handleMobileResize", 0))

(* BackgroundMobile.destroy(): removes boundResize, then removes from both
   stage text types the function a new bind() call returns; super.destroy()
   removes no listener. *)
destroyMobile(w) ==
    LET w1 == removeEventListener(w,
                  Listener("resize", "handleMobileResize", 0))
        w2 == [w1 EXCEPT !.binds = @ + 1]
        w3 == removeEventListener(w2,
                  Listener("stageTextCreated", "handleStageTextEvent",
                           w2.binds))
        w4 == removeEventListener(w3,
                  Listener("stageTextUpdated", "handleStageTextEvent",
                           w2.binds))
    IN  [w4 EXCEPT !.destroyed = TRUE]

\* the methods window.dispatchEvent invokes for an event of the type
invoked(w, type) ==
    {l.fn.method : l \in {k \in w.listeners : k.type = type}}

InitMobile ==
    /\ constructed
    /\ win = constructorMobile(setupEventListeners(NoWindow))
    /\ posAttr = <<>>
    /\ scene = <<>>
    /\ ball = <<>>
    /\ ret = <<>>

\* an event of the type reaches window
DispatchEvent(type) ==
    /\ Len(win.log) < MaxEvents
    /\ win' = [win EXCEPT !.log = Append(@,
                   [type |-> type, methods |-> invoked(win, type),
                    destroyed |-> win.destroyed])]
    /\ Become(this)
    /\ lastCall' = [op |-> type, dt |-> 0]
    /\ UNCHANGED <<simFrames, companyName, app>>

DestroyMobile ==
    /\ ~win.destroyed
    /\ win' = destroyMobile(win)
    /\ Become(this)
    /\ lastCall' = [op |-> "destroy", dt |-> 0]
    /\ UNCHANGED <<simFrames, companyName, app>>

NextMobile ==
    \/ \E type \in EventTypes : DispatchEvent(type)
    \/ DestroyMobile

SpecMobile == InitMobile /\ [][NextMobile]_vars

----------------------------------------------------------------------------
(* The reverse toggle: the triggers and the frames of a Background whose
   consumer also calls setReverseEnabled. *)

SetReverseEnabled(enabled) ==
    /\ Become(setReverseEnabled(this, enabled))
    /\ lastCall' = [op |-> "setReverseEnabled", dt |-> 0]
    /\ UNCHANGED <<simFrames, companyName, app, win>>

NextReverse ==
    \/ \E dt \in FrameDts, typingStart \in BOOLEAN : Frame(dt, typingStart)
    \/ StartWrap
    \/ StartUnwrap
    \/ \E enabled \in BOOLEAN : SetReverseEnabled(enabled)

SpecReverse == Init /\ [][NextReverse]_vars

----------------------------------------------------------------------------
(* Properties *)

\* the cyclic order of the animation steps
NextStep(step) ==
    CASE step = "INITIAL_CIRCLES_MOVE" -> "FORMING_GORES"
      [] step = "FORMING_GORES" -> "UNWRAPPING"
      [] step = "UNWRAPPING" -> "UNWRAPPED_IDLE"
      [] step = "UNWRAPPED_IDLE" -> "WRAPPING"
      [] step = "WRAPPING" -> "DEFORMING_GORES"
      [] step = "DEFORMING_GORES" -> "EYE_IDLE"
      [] step = "EYE_IDLE" -> "INITIAL_CIRCLES_MOVE"

\* the fields named by the no-op claim, and every other field of the object
machineState ==
    <<animationStep, stepProgress, unwrappingT, sphereYs, reverseStartYs,
      eyeToCircleProgress, circleDrawProgress, goreDrawProgress,
      currentPlacementProgress,
      wireframeTransitioning, wireframeTransitionProgress,
      wireframeTransitionTarget, wireframeMode,
      glowOutlineActive, glowOutlineProgress, glowPulseIntensity,
      glowPostAnimating, glowPostElapsed,
      pendingBallSpawn, ballsSpawned, ballsManager, balls,
      stageText, fgTextInit, unwrTextInit, stageTextContent,
      goreGeom, goreY, circleOutlines>>

(* C1: animationStep is always one of the seven steps, and every step of the
   machine (a frame of any dt, a trigger, an event) either keeps
   animationStep or moves it to its immediate successor in the cyclic order;
   a frame is one step, so it performs at most one transition. *)
C1_StepOrder ==
    /\ [](animationStep \in Steps)
    /\ [][animationStep' = animationStep
          \/ animationStep' = NextStep(animationStep)]_vars

\* a frame of 10 s has taken INITIAL_CIRCLES_MOVE to FORMING_GORES, no further
C1_Witness ==
    /\ lastCall = [op |-> "animate", dt |-> 6000]
    /\ animationStep = "FORMING_GORES"
    /\ stepProgress = 0

(* C2: startWrap() outside UNWRAPPED_IDLE and startUnwrap() outside EYE_IDLE
   leave every field of the machine unchanged. *)
C2_TriggerNoOp ==
    [][( \/ (lastCall'.op = "startWrap" /\ animationStep # "UNWRAPPED_IDLE")
         \/ (lastCall'.op = "startUnwrap" /\ animationStep # "EYE_IDLE") )
       => machineState' = machineState]_vars

\* startWrap() has been called in EYE_IDLE
C2_Witness ==
    /\ lastCall.op = "startWrap"
    /\ animationStep = "EYE_IDLE"
    /\ stepProgress > 0

(* The time a timed step lasts: its stepDurations entry, except that
   FORMING_GORES first types and holds its word. *)
C3_Duration(step) ==
    IF step = "FORMING_GORES"
    THEN STAGE_TYPE_SEC + STAGE_HOLD_SECOND_SEC + stepDurations[step]
    ELSE stepDurations[step]

(* C3 as stated: a frame in a timed step changes the step exactly when the
   elapsed time of the step, stepProgress + dt, has reached the step's entry
   in stepDurations. *)
C3_AsStated ==
    [][(lastCall'.op = "animate" /\ animationStep \in TimedSteps)
       => ( animationStep' # animationStep
            <=> stepProgress + lastCall'.dt >= stepDurations[animationStep] )]_vars

(* C3, amended: a frame in a timed step moves to the next step exactly when
   the elapsed time of the step has reached C3_Duration, which is 4.0 s for
   FORMING_GORES (1.2 s typing + 0.8 s hold + 2.0 s drawing). *)
C3_AdvanceAtDuration ==
    [][(lastCall'.op = "animate" /\ animationStep \in TimedSteps)
       => /\ animationStep' # animationStep
               <=> stepProgress + lastCall'.dt >= C3_Duration(animationStep)
          /\ animationStep' # animationStep
               => animationStep' = NextStep(animationStep)]_vars

\* the frame that ends FORMING_GORES has just run
C3_Witness ==
    /\ lastCall.op = "animate"
    /\ animationStep = "UNWRAPPING"
    /\ stepProgress = 0
    /\ ~unwrTextInit

(* C4 as stated: after 990 frames of 1/60 s (16.5 s) without triggers the
   machine is in UNWRAPPED_IDLE with unwrappingT = 1. *)
C4_AsStated ==
    simFrames = 990 => (animationStep = "UNWRAPPED_IDLE" /\ unwrappingT = 1000)

(* C4, amended: after 990 frames of 1/60 s the machine is still in UNWRAPPING
   with unwrappingT = 0.75; it is in UNWRAPPED_IDLE with unwrappingT = 1 once
   6.5 + 4.0 + 8.0 = 18.5 s (1110 frames) have run, and not before. *)
C4_FixedStepRun ==
    /\ simFrames = 990 => (animationStep = "UNWRAPPING" /\ unwrappingT = 750)
    /\ simFrames < 1110 => animationStep # "UNWRAPPED_IDLE"
    /\ simFrames >= 1110 => (animationStep = "UNWRAPPED_IDLE" /\ unwrappingT = 1000)

\* the 1110th frame has run
C4_Witness ==
    /\ simFrames = 1110
    /\ animationStep = "UNWRAPPED_IDLE"
    /\ completeCalls = 1

(* C5: only startWrap() takes the machine out of UNWRAPPED_IDLE and only
   startUnwrap() takes it out of EYE_IDLE; frames and window events do not. *)
C5_IdlePersists ==
    [][/\ (animationStep = "UNWRAPPED_IDLE" /\ animationStep' # animationStep)
            => lastCall'.op = "startWrap"
       /\ (animationStep = "EYE_IDLE" /\ animationStep' # animationStep)
            => lastCall'.op = "startUnwrap"]_vars

\* frames have run in UNWRAPPED_IDLE, after events, and the balls are there
C5_Witness ==
    /\ animationStep = "UNWRAPPED_IDLE"
    /\ lastCall.op = "animate"
    /\ stepProgress >= 800
    /\ ballsSpawned

(* C6: startUnwrap() in EYE_IDLE goes to INITIAL_CIRCLES_MOVE with
   stepProgress 0 and the forward-flow fields at their construction values. *)
C6_StartUnwrapResets ==
    [][(lastCall'.op = "startUnwrap" /\ animationStep = "EYE_IDLE")
       => /\ animationStep' = "INITIAL_CIRCLES_MOVE"
          /\ stepProgress' = 0
          /\ unwrappingT' = 0
          /\ sphereYs' = <<4500, 4500, 4500>>
          /\ eyeToCircleProgress' = 0
          /\ circleDrawProgress' = 1000
          /\ goreDrawProgress' = 0
          /\ wireframeMode' = "none"
          /\ wireframeTransitioning' = FALSE]_vars

\* startUnwrap() has restarted the flow after a full cycle
C6_Witness ==
    /\ lastCall.op = "startUnwrap"
    /\ animationStep = "INITIAL_CIRCLES_MOVE"
    /\ stepProgress = 0
    /\ stageText = "TRANSFORM"

(* C7: startWrap() in UNWRAPPED_IDLE goes to WRAPPING with stepProgress 0,
   clears pendingBallSpawn, removes the balls and resets ballsSpawned;
   unwrappingT is still 1 afterwards. *)
C7_StartWrapResets ==
    [][(lastCall'.op = "startWrap" /\ animationStep = "UNWRAPPED_IDLE")
       => /\ animationStep' = "WRAPPING"
          /\ stepProgress' = 0
          /\ ~pendingBallSpawn'
          /\ balls' = <<>>
          /\ ~ballsManager'
          /\ ~ballsSpawned'
          /\ unwrappingT' = 1000]_vars

\* startWrap() has just started the wrap, with the glow fully revealed
C7_Witness ==
    /\ lastCall.op = "startWrap"
    /\ animationStep = "WRAPPING"
    /\ stepProgress = 0
    /\ glowOutlineActive
    /\ glowOutlineProgress = 1000

(* C8: unwrappingT never decreases over a step taken in UNWRAPPING, which it
   enters at 0 and leaves at 1, and never increases over a step taken in
   WRAPPING, which it enters at 1 and leaves at 0. *)
C8_UnfoldMonotonic ==
    [][/\ animationStep = "UNWRAPPING" => unwrappingT' >= unwrappingT
       /\ (animationStep # "UNWRAPPING" /\ animationStep' = "UNWRAPPING")
            => unwrappingT' = 0
       /\ (animationStep = "UNWRAPPING" /\ animationStep' # "UNWRAPPING")
            => unwrappingT' = 1000
       /\ animationStep = "WRAPPING" => unwrappingT' <= unwrappingT
       /\ (animationStep # "WRAPPING" /\ animationStep' = "WRAPPING")
            => unwrappingT' = 1000
       /\ (animationStep = "WRAPPING" /\ animationStep' # "WRAPPING")
            => unwrappingT' = 0]_vars

\* half way through the wrap
C8_Witness ==
    /\ animationStep = "WRAPPING"
    /\ lastCall.op = "animate"
    /\ unwrappingT = 500

(* C9: every progress scalar is within 0..1 in every reachable state. *)
C9_ProgressInRange ==
    /\ unwrappingT \in 0..1000
    /\ goreDrawProgress \in 0..1000
    /\ circleDrawProgress \in 0..1000
    /\ eyeToCircleProgress \in 0..1000
    /\ wireframeTransitionProgress \in 0..1000
    /\ glowOutlineProgress \in 0..1000

\* a frame of 10 s has overshot DEFORMING_GORES while the glow tween ran
C9_Witness ==
    /\ lastCall = [op |-> "animate", dt |-> 6000]
    /\ animationStep = "EYE_IDLE"
    /\ stepProgress = 0
    /\ glowOutlineProgress = 1000

(* C10: the twist amount of every updateGores call is 0 when the call is made
   outside UNWRAPPING, and is 0 at unfold progress 0 and 1 when it is made in
   UNWRAPPING. *)
C10_TwistZeroAtEndpoints ==
    \A i \in DOMAIN goreCalls :
        /\ goreCalls[i].step # "UNWRAPPING" => goreCalls[i].twistAmount = 0
        /\ (goreCalls[i].step = "UNWRAPPING"
            /\ clamp01(goreCalls[i].unfoldProgress) \in {0, 1000})
             => goreCalls[i].twistAmount = 0

\* what does hold of the twist: none outside UNWRAPPING, none at progress 0
TwistOnlyWhileUnwrapping ==
    \A i \in DOMAIN goreCalls :
        /\ goreCalls[i].step # "UNWRAPPING" => goreCalls[i].twistAmount = 0
        /\ goreCalls[i].unfoldProgress = 0 => goreCalls[i].twistAmount = 0
        /\ goreCalls[i].twistAmount \in 0..1000

----------------------------------------------------------------------------
(* Ball geometry (BallsManager).  A THREE.Vector2 is a record [x, y] whose
   coordinates are thousandths of a local unit, a polygon is a sequence of
   them.  The inputs are taken on a grid whose step makes every centroid a
   whole number of thousandths, so that sums, cross products and centroids
   are exact; a square root is rounded down. *)

Vec2(x, y) == [x |-> x, y |-> y]

\* largest r with r * r <= n
isqrt(n) == CHOOSE r \in 0..4096 : r * r <= n /\ (r + 1) * (r + 1) > n

distanceTo(p, q) ==
    isqrt((p.x - q.x) * (p.x - q.x) + (p.y - q.y) * (p.y - q.y))

\* the comparator of the sort in buildConvexHull2D: by x, then by y
before(a, b) == IF a.x = b.x THEN a.y <= b.y ELSE a.x < b.x

RECURSIVE insertSorted(_, _)
insertSorted(sorted, p) ==
    IF sorted = <<>> THEN <<p>>
    ELSE IF before(sorted[Len(sorted)], p) THEN Append(sorted, p)
    ELSE Append(insertSorted(SubSeq(sorted, 1, Len(sorted) - 1), p),
                sorted[Len(sorted)])

RECURSIVE sortPoints(_)
sortPoints(points) ==
    IF points = <<>> THEN <<>>
    ELSE insertSorted(sortPoints(SubSeq(points, 1, Len(points) - 1)),
                      points[Len(points)])

cross(o, a, b) == (a.x - o.x) * (b.y - o.y) - (a.y - o.y) * (b.x - o.x)

\* while (chain.length >= 2 && cross(...) <= 0) chain.pop()
RECURSIVE popWhile(_, _)
popWhile(chain, p) ==
    IF Len(chain) >= 2 /\ cross(chain[Len(chain) - 1], chain[Len(chain)], p) <= 0
    THEN popWhile(SubSeq(chain, 1, Len(chain) - 1), p)
    ELSE chain

\* one pass of the monotonic chain over pts[i..]
RECURSIVE chainFrom(_, _, _)
chainFrom(pts, i, chain) ==
    IF i > Len(pts) THEN chain
    ELSE chainFrom(pts, i + 1, Append(popWhile(chain, pts[i]), pts[i]))

reversed(seq) == [i \in 1..Len(seq) |-> seq[Len(seq) + 1 - i]]

\* Array.prototype.pop, which leaves an empty array alone
pop(seq) == IF seq = <<>> THEN <<>> ELSE SubSeq(seq, 1, Len(seq) - 1)

RECURSIVE sumX(_)
sumX(pts) == IF pts = <<>> THEN 0 ELSE pts[1].x + sumX(Tail(pts))

RECURSIVE sumY(_)
sumY(pts) == IF pts = <<>> THEN 0 ELSE pts[1].y + sumY(Tail(pts))

\* the mean of the points (c.add(p) for each, then multiplyScalar(1 / n))
centroidOf(pts) ==
    Vec2(sumX(pts) \div Max(1, Len(pts)), sumY(pts) \div Max(1, Len(pts)))

\* 0.01, the least radius of the fallback square
minFallbackRadius == 10

RECURSIVE maxDistance(_, _, _)
maxDistance(pts, c, m) ==
    IF pts = <<>> THEN m
    ELSE maxDistance(Tail(pts), c, Max(m, distanceTo(pts[1], c)))

\* the chains joined without dropping the last point of each
monotonicChain_keepEnds(points) ==
    LET pts == sortPoints(points)
        lower == chainFrom(pts, 1, <<>>)
        upper == chainFrom(reversed(pts), 1, <<>>)
    IN  lower \o upper

monotonicChain(points) ==
    LET pts == sortPoints(points)
        lower == chainFrom(pts, 1, <<>>)
        upper == chainFrom(reversed(pts), 1, <<>>)
    IN  pop(lower) \o pop(upper)

\* the hull returned as the chains give it
buildConvexHull2D_noFallback(points) == monotonicChain(points)

buildConvexHull2D(points) ==
    LET hull == monotonicChain(points)
    IN  IF Len(hull) < 3 /\ Len(points) > 0
        THEN LET c == centroidOf(points)
                 r == maxDistance(points, c, minFallbackRadius)
             IN  << Vec2(c.x - r, c.y - r), Vec2(c.x + r, c.y - r),
                    Vec2(c.x + r, c.y + r), Vec2(c.x - r, c.y + r) >>
        ELSE hull

\* 1e-6, which is one squared thousandth
eps == 1

abs(x) == IF x < 0 THEN -x ELSE x

(* One turn of the ray-casting loop for the edge poly[j] -> poly[i].  The
   quotient (xj - xi) * (p.y - yi) / (yj - yi) is compared exactly: the test
   is only reached with yi # yj, so the 1e-6 replacement divisor is not. *)
onEdge(p, pi, pj) ==
    /\ abs((pj.x - pi.x) * (p.y - pi.y) - (pj.y - pi.y) * (p.x - pi.x)) < eps
    /\ (p.x - pi.x) * (p.x - pj.x) <= eps
    /\ (p.y - pi.y) * (p.y - pj.y) <= eps

intersect(p, pi, pj) ==
    /\ (pi.y > p.y) # (pj.y > p.y)
    /\ LET num == (pj.x - pi.x) * (p.y - pi.y)
           den == pj.y - pi.y
       IN  IF den > 0 THEN (p.x - pi.x) * den < num
                      ELSE (p.x - pi.x) * den > num

RECURSIVE rayCast(_, _, _, _)
rayCast(p, poly, i, inside) ==
    IF i > Len(poly) THEN inside
    ELSE LET j == IF i = 1 THEN Len(poly) ELSE i - 1
         IN  IF onEdge(p, poly[i], poly[j]) THEN TRUE
             ELSE rayCast(p, poly, i + 1,
                          IF intersect(p, poly[i], poly[j]) THEN ~inside ELSE inside)

pointInPolygon(p, poly) == rayCast(p, poly, 1, FALSE)

\* the hull test alone
pointValidLocal_hullOnly(p, hull, exPolys) == pointInPolygon(p, hull)

pointValidLocal(p, hull, exPolys) ==
    /\ pointInPolygon(p, hull)
    /\ \A k \in 1..Len(exPolys) : ~pointInPolygon(p, exPolys[k])

----------------------------------------------------------------------------
(* Sampling a start or target point, and the exclusion polygons.

   Math.random() is a stream of draws in thousandths.  A stream is given by
   two triples of draws and a count n: the triple of a call of
   randomPointInsideHull is `first` for the first n calls and `rest` from
   then on, which covers a sample accepted at once, one accepted after
   rejected ones, and twenty rejected samples in a row. *)

DrawAt(stream, i) == IF i <= stream.n THEN stream.first ELSE stream.rest

\* floor of a quotient of thousandths
scaled(a, b) == (a * b) \div 1000

randomPointInsideHull(hull, centroid, draw) ==
    IF Len(hull) < 3 THEN centroid
    ELSE LET idx == (draw.r * Len(hull)) \div 1000
             a == centroid
             b == hull[idx + 1]
             c == hull[((idx + 1) % Len(hull)) + 1]
             flip == draw.u + draw.v > 1000
             u == IF flip THEN 1000 - draw.u ELSE draw.u
             v == IF flip THEN 1000 - draw.v ELSE draw.v
         IN  Vec2(a.x + scaled(u, b.x - a.x) + scaled(v, c.x - a.x),
                  a.y + scaled(u, b.y - a.y) + scaled(v, c.y - a.y))

(* 0.1 * (cos(a * PI / 8), sin(a * PI / 8)) for a = 0..15, to the nearest
   thousandth *)
probeOffsets ==
    << Vec2(100, 0), Vec2(92, 38), Vec2(71, 71), Vec2(38, 92),
       Vec2(0, 100), Vec2(-38, 92), Vec2(-71, 71), Vec2(-92, 38),
       Vec2(-100, 0), Vec2(-92, -38), Vec2(-71, -71), Vec2(-38, -92),
       Vec2(0, -100), Vec2(38, -92), Vec2(71, -71), Vec2(92, -38) >>

\* the 16 probes around the centroid, then the centroid itself
RECURSIVE probeFrom(_, _, _, _)
probeFrom(hull, exPolys, centroid, a) ==
    IF a > Len(probeOffsets) THEN centroid
    ELSE LET p == Vec2(centroid.x + probeOffsets[a].x,
                       centroid.y + probeOffsets[a].y)
         IN  IF pointValidLocal(p, hull, exPolys) THEN p
             ELSE probeFrom(hull, exPolys, centroid, a + 1)

\* number of samples tried before the probes
maxTries == 20

(* The loop over tries; `used` draws of the stream were taken before the
   call.  The result carries the number of draws taken so far and where the
   point came from. *)
RECURSIVE sampleFrom(_, _, _, _, _, _)
sampleFrom(hull, exPolys, centroid, stream, used, tries) ==
    IF tries >= maxTries
    THEN [value |-> probeFrom(hull, exPolys, centroid, 1),
          used |-> used, tries |-> tries]
    ELSE LET p == randomPointInsideHull(hull, centroid, DrawAt(stream, used + 1))
         IN  IF pointValidLocal(p, hull, exPolys)
             THEN [value |-> p, used |-> used + 1, tries |-> tries + 1]
             ELSE sampleFrom(hull, exPolys, centroid, stream, used + 1, tries + 1)

\* the first sample returned without the validity test
randomAllowedPointInside_unchecked(hull, exPolys, centroid, stream, used) ==
    [value |-> randomPointInsideHull(hull, centroid, DrawAt(stream, used + 1)),
     used |-> used + 1, tries |-> 1]

randomAllowedPointInside(hull, exPolys, centroid, stream, used) ==
    sampleFrom(hull, exPolys, centroid, stream, used, 0)

(* scene.traverse: the objects of the scene in traversal order, each with
   its vertices as localToWorld and the current gore's worldToLocal map
   them. *)
RECURSIVE gatherFrom(_, _, _, _)
gatherFrom(objects, current, currentRadius, i) ==
    IF i > Len(objects) THEN <<>>
    ELSE LET m == objects[i]
             rest == gatherFrom(objects, current, currentRadius, i + 1)
         IN  IF ~(m.isMesh /\ m.isGore) THEN rest
             ELSE IF i = current THEN rest
             ELSE IF ~(m.sphereRadius < currentRadius) THEN rest
             ELSE LET otherHull == buildConvexHull2D(m.pts)
                  IN  IF Len(otherHull) >= 3 THEN <<otherHull>> \o rest ELSE rest

\* every other gore taken, whatever its radius
gatherExclusionPolys_anyRadius(objects, current, currentRadius) ==
    gatherFrom(objects, current, currentRadius + sphereRadius[1], 1)

gatherExclusionPolys(objects, current, currentRadius) ==
    gatherFrom(objects, current, currentRadius, 1)

\* the farthest vertex from (0, 0), the first one among equals
RECURSIVE tipFrom(_, _, _, _)
tipFrom(pts, i, maxL, tip) ==
    IF i > Len(pts) THEN tip
    ELSE LET l == pts[i].x * pts[i].x + pts[i].y * pts[i].y
         IN  IF l > maxL THEN tipFrom(pts, i + 1, l, pts[i])
             ELSE tipFrom(pts, i + 1, maxL, tip)

(* addBallForGore, first part: the tip, the hull, the centroid and the
   exclusion polygons of the gore sc.objects[sc.current]. *)
goreRegions(sc) ==
    LET gore == sc.objects[sc.current]
        pts == gore.pts
    IN  [gore |-> sc.current,
         tip |-> tipFrom(pts, 1, -1, Vec2(0, 0)),
         hull |-> buildConvexHull2D(pts),
         center |-> centroidOf(pts),
         exPolys |-> gatherExclusionPolys(sc.objects, sc.current, gore.sphereRadius)]

(* addBallForGore, second part: the start position and the target.  b.vel
   and b.wanderTheta are not kept: they are random here and every frame
   steers them with further random draws before the ball moves. *)
addBallForGore(g, stream) ==
    LET resample == randomAllowedPointInside(g.hull, g.exPolys, g.center, stream, 0)
        tipValid == pointValidLocal(g.tip, g.hull, g.exPolys)
        start == IF tipValid THEN g.tip ELSE resample.value
        used == IF tipValid THEN 0 ELSE resample.used
        target == randomAllowedPointInside(g.hull, g.exPolys, g.center, stream, used)
    IN  [gore |-> g.gore, pos |-> start, hull |-> g.hull,
         target |-> target.value, exPolys |-> g.exPolys, center |-> g.center]

----------------------------------------------------------------------------
(* buildConvexHull2D applied to bounded inputs *)

\* largest number of vertices handed to buildConvexHull2D
MaxPoints == 5

(* Coordinates of the input vertices: 0, 0.6 and 1.2.  The step is a
   multiple of every point count up to 6 and more, which keeps centroids
   exact. *)
GridCoords == {0, 600, 1200}

GridPoints == {Vec2(x, y) : x \in GridCoords, y \in GridCoords}

\* the variables of the animation, which the geometry functions never touch
animationVars ==
    <<machineState, lastCall, goreCalls, completeCalls, simFrames, companyName,
      reverseEnabled, app, win>>

InitHull ==
    /\ InitBackground
    /\ posAttr \in UNION {[1..n -> GridPoints] : n \in 1..MaxPoints}
    /\ scene = <<>>
    /\ ball = <<>>
    /\ ret = <<>>

BuildConvexHull2D ==
    /\ ret = <<>>
    /\ ret' = [fn |-> "buildConvexHull2D", value |-> buildConvexHull2D(posAttr)]
    /\ UNCHANGED <<posAttr, scene, ball>>
    /\ UNCHANGED animationVars

NextHull == BuildConvexHull2D

SpecHull == InitHull /\ [][NextHull]_vars

----------------------------------------------------------------------------
(* addBallForGore and the sampling functions applied to bounded scenes *)

\* the axis-aligned square [lo, hi] x [lo, hi] as a vertex list
SquarePts(lo, hi) == << Vec2(lo, lo), Vec2(hi, lo), Vec2(hi, hi), Vec2(lo, hi) >>

(* Vertices of the gore that receives the ball: a square, a triangle, and
   three collinear vertices (whose hull is the fallback square). *)
GoreShapes ==
    { SquarePts(0, 1200),
      << Vec2(0, 0), Vec2(1200, 0), Vec2(0, 1200) >>,
      << Vec2(0, 0), Vec2(600, 600), Vec2(1200, 1200) >> }

(* Vertices of the gores of the middle sphere as the current gore sees
   them: over the far corner, or away from the gore. *)
MiddleShapes == { SquarePts(900, 1300), SquarePts(2000, 2600) }

(* Vertices of the gores of the inner sphere as the current gore sees them:
   a small square at the centre, a square that holds every probe around the
   centroid, a square over the whole gore, or away from the gore. *)
InnerShapes ==
    { SquarePts(550, 750), SquarePts(300, 900), SquarePts(-300, 1500),
      SquarePts(2000, 2600) }

\* the index in traversal order of gore gi of sphere si (both from 0)
GoreIndex(si, gi) == si * numGores + gi + 1

(* The scene seen from gore `cur`: the gores of the three sphere groups as
   updateGores tags them, then a proximity overlay mesh of an earlier ball
   (a Mesh that is no gore) and an outline (no Mesh). *)
SceneOf(cur, own, middle, inner) ==
    [current |-> GoreIndex(cur[1], cur[2]),
     objects |->
        [i \in 1..(3 * numGores) |->
            LET si == (i - 1) \div numGores
            IN  [isMesh |-> TRUE, isGore |-> TRUE,
                 sphereIndex |-> si, sphereRadius |-> sphereRadius[si + 1],
                 pts |-> IF si = cur[1] THEN own
                         ELSE IF si = 1 THEN middle
                         ELSE IF si = 2 THEN inner
                         ELSE SquarePts(-2200, 2200)]]
        \o << [isMesh |-> TRUE, isGore |-> FALSE, sphereIndex |-> 0,
               sphereRadius |-> 0, pts |-> own],
              [isMesh |-> FALSE, isGore |-> FALSE, sphereIndex |-> 0,
               sphereRadius |-> 0, pts |-> own] >>]

\* outcomes of Math.random(), in thousandths
Randoms == {0, 750}

Draws == [r : Randoms, u : Randoms, v : Randoms]

Streams ==
    {[first |-> d, rest |-> d, n |-> 0] : d \in Draws}
        \cup [first : Draws, rest : Draws, n : {1, maxTries}]

\* points handed to pointValidLocal
TestCoords == {100 * k - 100 : k \in 0..14}

TestPoints == {Vec2(x, y) : x \in TestCoords, y \in TestCoords}

InitSpawn ==
    /\ InitBackground
    /\ posAttr \in GoreShapes
    /\ \E i \in 1..Len(DefaultBallGores), middle \in MiddleShapes,
          inner \in InnerShapes :
          scene = SceneOf(DefaultBallGores[i], posAttr, middle, inner)
    /\ ball = <<>>
    /\ ret = <<>>

(* Each function is applied to the regions of the current gore of the
   scene, with every stream of random draws or every test point. *)
AddBallForGore ==
    /\ ball = <<>>
    /\ ret = <<>>
    /\ \E g \in {goreRegions(scene)} : \E stream \in Streams :
          ball' = addBallForGore(g, stream)
    /\ ret' = [fn |-> "addBallForGore"]
    /\ UNCHANGED <<posAttr, scene>>
    /\ UNCHANGED animationVars

RandomAllowedPointInside ==
    /\ ball = <<>>
    /\ ret = <<>>
    /\ \E g \in {goreRegions(scene)} : \E stream \in Streams :
          ret' = [fn |-> "randomAllowedPointInside", stream |-> stream,
                  hull |-> g.hull, exPolys |-> g.exPolys, centroid |-> g.center,
                  result |-> randomAllowedPointInside(g.hull, g.exPolys,
                                                      g.center, stream, 0)]
    /\ UNCHANGED <<posAttr, scene, ball>>
    /\ UNCHANGED animationVars

PointValidLocal ==
    /\ ball = <<>>
    /\ ret = <<>>
    /\ \E g \in {goreRegions(scene)} : \E p \in TestPoints :
          ret' = [fn |-> "pointValidLocal", p |-> p,
                  hull |-> g.hull, exPolys |-> g.exPolys,
                  value |-> pointValidLocal(p, g.hull, g.exPolys)]
    /\ UNCHANGED <<posAttr, scene, ball>>
    /\ UNCHANGED animationVars

NextSpawn ==
    \/ AddBallForGore
    \/ RandomAllowedPointInside
    \/ PointValidLocal

SpecSpawn == InitSpawn /\ [][NextSpawn]_vars

----------------------------------------------------------------------------
(* BallsManager.update for one ball.  The fade of the materials is left
   out.  The velocity the ball moves with in a frame comes out of the
   wander heading, the seek direction and the jitter, all of them random, and
   is clamped to a speed between minS and maxS: it is an input of the
   frame, a vector of Velocities.  Velocities are thousandths per second,
   dt is in ticks. *)

\* 0.08, the distance at which a target counts as reached
targetReached == 80
\* 0.12, the length of the inward steering vector
inwardLength == 120
\* the number of bisection steps
bisectionSteps == 6
\* 60 frames of FixedDt ticks
ticksPerSecond == 60 * FixedDt

\* v * dt for dt in ticks
addScaled(p, v, dt) ==
    Vec2(p.x + (v.x * dt) \div ticksPerSecond, p.y + (v.y * dt) \div ticksPerSecond)

\* Vector2.normalize (which leaves the zero vector alone), times len
normalizedTo(d, len) ==
    LET l == isqrt(d.x * d.x + d.y * d.y)
    IN  IF l = 0 THEN Vec2(0, 0)
        ELSE Vec2((d.x * len) \div l, (d.y * len) \div l)

\* pos + adjustedVel * dt * mid, with mid in 64ths
testPoint(pos, adjustedVel, dt, mid64) ==
    Vec2(pos.x + (adjustedVel.x * dt * mid64) \div (64 * ticksPerSecond),
         pos.y + (adjustedVel.y * dt * mid64) \div (64 * ticksPerSecond))

\* the bisection loop, lo and hi in 64ths
RECURSIVE bisect(_, _, _, _, _, _, _)
bisect(b, adjustedVel, dt, lo, hi, chosen, k) ==
    IF k >= bisectionSteps THEN chosen
    ELSE LET mid == (lo + hi) \div 2
             test == testPoint(b.pos, adjustedVel, dt, mid)
         IN  IF pointValidLocal(test, b.hull, b.exPolys)
             THEN bisect(b, adjustedVel, dt, mid, hi, test, k + 1)
             ELSE bisect(b, adjustedVel, dt, lo, mid, chosen, k + 1)

\* the position is set to the proposed one whether it is valid or not
updateBall_noTest(b, dt, rnd) ==
    [b EXCEPT !.pos = addScaled(b.pos, rnd.vel, dt)]

(* The body of the loop over the balls.  rnd holds the random outcomes of
   the frame: whether Math.random() < 0.005, the stream the new target is
   sampled with, and the velocity. *)
updateBall(b, dt, rnd) ==
    LET b1 == IF distanceTo(b.target, b.pos) < targetReached \/ rnd.retarget
              THEN [b EXCEPT !.target =
                        randomAllowedPointInside(b.hull, b.exPolys, b.center,
                                                 rnd.stream, 0).value]
              ELSE b
        proposed == addScaled(b1.pos, rnd.vel, dt)
    IN  IF pointValidLocal(proposed, b1.hull, b1.exPolys)
        THEN [b1 EXCEPT !.pos = proposed]
        ELSE LET inward == normalizedTo(Vec2(b1.center.x - b1.pos.x,
                                             b1.center.y - b1.pos.y), inwardLength)
                 adjustedVel == Vec2(rnd.vel.x + inward.x, rnd.vel.y + inward.y)
             IN  [b1 EXCEPT !.pos = bisect(b1, adjustedVel, dt, 0, 64, b1.pos, 0)]

----------------------------------------------------------------------------
(* update applied to a ball that addBallForGore has placed *)

\* number of frames a ball is followed for
MaxUpdates == 1

(* Velocities after the clamp: the largest speed 0.22 along the axes and
   a diagonal, and the least speed 0.05. *)
Velocities ==
    { Vec2(220, 0), Vec2(0, 220), Vec2(-220, 0), Vec2(0, -220),
      Vec2(-155, -155), Vec2(50, 0) }

\* frame deltas in ticks: 1/60 s, 2/3 s, 10 s
UpdateDts == {FixedDt, 400, 6000}

\* the draws of a sample at the centroid and of one 3/4 of the way to a vertex
CentroidDraw == [r |-> 0, u |-> 0, v |-> 0]
VertexDraw == [r |-> 0, u |-> 750, v |-> 0]

\* the streams a ball is placed with: its samples are accepted or rejected at once
SpawnStreams ==
    {[first |-> d, rest |-> d, n |-> 0] : d \in {CentroidDraw, VertexDraw}}

\* a new target is sampled at the centroid first, then towards a vertex
Rnds ==
    [retarget : BOOLEAN,
     stream : {[first |-> CentroidDraw, rest |-> VertexDraw, n |-> 1]},
     vel : Velocities]

(* The scenes a ball is followed in: on the outer sphere with exclusion
   polygons over the far corner and at the centre, on the middle sphere with
   a small or a large exclusion square at the centre, on the inner sphere
   with none. *)
UpdateScenes(own) ==
    { SceneOf(DefaultBallGores[1], own, SquarePts(900, 1300), SquarePts(550, 750)),
      SceneOf(DefaultBallGores[2], own, SquarePts(900, 1300), SquarePts(550, 750)),
      SceneOf(DefaultBallGores[2], own, SquarePts(900, 1300), SquarePts(300, 900)),
      SceneOf(DefaultBallGores[3], own, SquarePts(900, 1300), SquarePts(550, 750)) }

InitUpdate ==
    /\ InitBackground
    /\ posAttr \in GoreShapes
    /\ scene \in UpdateScenes(posAttr)
    /\ \E stream \in SpawnStreams : ball = addBallForGore(goreRegions(scene), stream)
    /\ ret = [fn |-> "addBallForGore"]

(* One frame: BallsManager.update(dt) with one ball.  ret keeps the inputs
   of the frame and the position the ball had. *)
Update ==
    /\ ball # <<>>
    /\ simFrames < MaxUpdates
    /\ \E dt \in UpdateDts, rnd \in Rnds :
          /\ ball' = updateBall(ball, dt, rnd)
          /\ ret' = [fn |-> "update", dt |-> dt, rnd |-> rnd, from |-> ball.pos]
    /\ simFrames' = simFrames + 1
    /\ UNCHANGED <<posAttr, scene>>
    /\ UNCHANGED <<machineState, lastCall, goreCalls, completeCalls, companyName,
                   reverseEnabled, app, win>>

NextUpdate == Update

SpecUpdate == InitUpdate /\ [][NextUpdate]_vars

----------------------------------------------------------------------------
(* Gore geometry (core/geometry.ts).  Angles are in thousandths of pi,
   lengths and ratios in thousandths (rSphere is the sphereRadius
   argument); every product of two such numbers is brought back to
   thousandths at once. *)

GridModes == {"rectangular", "minimal", "triangular", "radial"}

\* Math.PI in thousandths
PI == 3142

mul(a, b) == (a * b) \div 1000

\* Math.sin and Math.cos of an angle given in thousandths of pi
sinAngle(a) ==
    LET m == a % 2000
    IN  IF m <= 1000 THEN sinPi(m) ELSE -sinPi(m - 1000)

cosAngle(a) == sinAngle(a + 500)

Vec3(x, y, z) == [x |-> x, y |-> y, z |-> z]

\* the step counts of a grid mode; any other mode is the rectangular one
stepsOf(gridMode) ==
    CASE gridMode = "minimal" -> [latitudeSteps |-> 3, longitudeSteps |-> 2]
      [] gridMode = "triangular" -> [latitudeSteps |-> 20, longitudeSteps |-> 10]
      [] gridMode = "radial" -> [latitudeSteps |-> 12, longitudeSteps |-> 24]
      [] OTHER -> [latitudeSteps |-> 16, longitudeSteps |-> 8]

\* the number of vertices of the grid of a mode
vertexCountOf(gridMode) ==
    (stepsOf(gridMode).latitudeSteps + 1) * (stepsOf(gridMode).longitudeSteps + 1)

\* lerp(2 pi / currentNumGores, 2 pi / 3, transitionProgress), thousandths of pi
angleStepOf(currentNumGores, transitionProgress) ==
    lerp(2000 \div currentNumGores, 2000 \div 3, transitionProgress)

\* the point of the sphere for (lat, lon), centred on the origin
sphericalPoint(lat, lon, goreIndex, rSphere, currentNumGores, transitionProgress, gridMode) ==
    LET st == stepsOf(gridMode)
        sphericalAngleStep == angleStepOf(currentNumGores, transitionProgress)
        startAngle == goreIndex * sphericalAngleStep
        endAngle == (goreIndex + 1) * sphericalAngleStep
        phi == (lat * 1000) \div st.latitudeSteps
        theta == startAngle + (lon * (endAngle - startAngle)) \div st.longitudeSteps
        radius == sinAngle(phi)
    IN  Vec3(mul(mul(rSphere, radius), cosAngle(theta)),
             mul(rSphere, cosAngle(phi)),
             mul(mul(rSphere, radius), sinAngle(theta)))

\* the point of the flattened gore for (lat, lon)
flatPoint(lat, lon, rSphere, currentNumGores, transitionProgress, gridMode) ==
    LET st == stepsOf(gridMode)
        meridionalDistance == mul(PI, rSphere)
        flatYOffset == (-rSphere) - (-meridionalDistance) \div 2
        flatAngleStep == mul(PI, angleStepOf(currentNumGores, transitionProgress))
        phi == (lat * 1000) \div st.latitudeSteps
        u == (lon * 1000) \div st.longitudeSteps
        v == (lat * 1000) \div st.latitudeSteps
        flatY == mul(meridionalDistance, 500 - v) + flatYOffset
        maxWidth == mul(flatAngleStep, rSphere)
        latitudeFromEquator == abs(phi - 500)
        tapering == cosAngle(latitudeFromEquator)
        edgeParameter == 2 * u - 1000
        concavity == IF gridMode = "minimal" THEN 100 ELSE 300
        concaveFactor == 1000 - mul(concavity, 1000 - mul(edgeParameter, edgeParameter))
        currentWidth == mul(mul(maxWidth, tapering), concaveFactor)
        angle == u - 500
        ringRadius == mul(mul(1000 - v, currentWidth \div 2), tapering)
    IN  IF gridMode = "radial"
        THEN Vec3(mul(cosAngle(angle), ringRadius), flatY,
                  mul(sinAngle(angle), ringRadius))
        ELSE Vec3(mul(edgeParameter, currentWidth) \div 2, flatY, 0)

\* variant: the weight of the flattened point is the square of unfoldProgress
vertexOf_squaredWeight(s, f, unfoldProgress, rSphere) ==
    LET w == mul(unfoldProgress, unfoldProgress)
    IN  Vec3(mul(1000 - w, s.x) + mul(w, f.x),
             mul(1000 - w, s.y) + mul(w, f.y) + rSphere,
             mul(1000 - w, s.z) + mul(w, f.z))

\* the vertex between the spherical point s and the flattened point f
vertexOf(s, f, unfoldProgress, rSphere) ==
    Vec3(mul(1000 - unfoldProgress, s.x) + mul(unfoldProgress, f.x),
         mul(1000 - unfoldProgress, s.y) + mul(unfoldProgress, f.y) + rSphere,
         mul(1000 - unfoldProgress, s.z) + mul(unfoldProgress, f.z))

\* variant: the grid is closed by one more row of vertices
pointsOf_extraRow(goreIndex, unfoldProgress, rSphere, currentNumGores, transitionProgress, gridMode) ==
    LET st == stepsOf(gridMode)
        lonCount == st.longitudeSteps + 1
    IN  [k \in 1..((st.latitudeSteps + 2) * lonCount) |->
            LET lat == (k - 1) \div lonCount
                lon == (k - 1) % lonCount
            IN  vertexOf(sphericalPoint(lat, lon, goreIndex, rSphere,
                                        currentNumGores, transitionProgress, gridMode),
                         flatPoint(lat, lon, rSphere, currentNumGores,
                                   transitionProgress, gridMode),
                         unfoldProgress, rSphere)]

\* the vertex loop: lat outer, lon inner, vertex k-1 at (lat, lon)
pointsOf(goreIndex, unfoldProgress, rSphere, currentNumGores, transitionProgress, gridMode) ==
    LET st == stepsOf(gridMode)
        lonCount == st.longitudeSteps + 1
    IN  [k \in 1..((st.latitudeSteps + 1) * lonCount) |->
            LET lat == (k - 1) \div lonCount
                lon == (k - 1) % lonCount
            IN  vertexOf(sphericalPoint(lat, lon, goreIndex, rSphere,
                                        currentNumGores, transitionProgress, gridMode),
                         flatPoint(lat, lon, rSphere, currentNumGores,
                                   transitionProgress, gridMode),
                         unfoldProgress, rSphere)]

\* the four corners of cell (lat, lon), as vertex indices from 0
cellCorners(lat, lon, longitudeSteps) ==
    [a |-> lat * (longitudeSteps + 1) + lon,
     b |-> lat * (longitudeSteps + 1) + lon + 1,
     c |-> (lat + 1) * (longitudeSteps + 1) + lon,
     d |-> (lat + 1) * (longitudeSteps + 1) + lon + 1]

\* variant: every cell of every mode is split along the a-d diagonal
cellIndices_sameDiagonal(lat, lon, longitudeSteps, gridMode) ==
    LET q == cellCorners(lat, lon, longitudeSteps)
    IN  <<q.a, q.b, q.d, q.a, q.d, q.c>>

\* the six indices pushed for cell (lat, lon)
cellIndices(lat, lon, longitudeSteps, gridMode) ==
    LET q == cellCorners(lat, lon, longitudeSteps)
    IN  IF gridMode = "triangular"
        THEN IF (lat + lon) % 2 = 0
             THEN <<q.a, q.b, q.c, q.b, q.d, q.c>>
             ELSE <<q.a, q.d, q.c, q.a, q.b, q.d>>
        ELSE <<q.a, q.b, q.d, q.a, q.d, q.c>>

\* the index loop: lat outer, lon inner, six indices per cell
indicesOf(gridMode) ==
    LET st == stepsOf(gridMode)
    IN  [k \in 1..(6 * st.latitudeSteps * st.longitudeSteps) |->
            LET cell == (k - 1) \div 6
            IN  cellIndices(cell \div st.longitudeSteps, cell % st.longitudeSteps,
                            st.longitudeSteps, gridMode)[((k - 1) % 6) + 1]]

createGoreGeometry(goreIndex, unfoldProgress, rSphere, currentNumGores, transitionProgress, gridMode) ==
    [points |-> pointsOf(goreIndex, unfoldProgress, rSphere,
                         currentNumGores, transitionProgress, gridMode),
     index |-> indicesOf(gridMode),
     userData |-> [latCount |-> stepsOf(gridMode).latitudeSteps + 1,
                   lonCount |-> stepsOf(gridMode).longitudeSteps + 1]]

----------------------------------------------------------------------------
(* createGoreGeometry applied to bounded arguments *)

GoreIndices == {0, 4, 8}
UnfoldProgresses == {0, 250, 500, 1000}
GoreCounts == {3, 9}
TransitionProgresses == {0, 1000}
Radii == {sphereRadius[si] : si \in 1..3}

InitGore ==
    /\ InitBackground
    /\ posAttr = <<>>
    /\ scene = <<>>
    /\ ball = <<>>
    /\ ret \in [fn : {"arguments"}, goreIndex : GoreIndices,
                unfoldProgress : UnfoldProgresses,
                sphereRadius : Radii,
                currentNumGores : GoreCounts,
                transitionProgress : TransitionProgresses,
                gridMode : GridModes]

CreateGoreGeometry ==
    /\ ret.fn = "arguments"
    /\ ret' = [fn |-> "createGoreGeometry", args |-> ret,
               value |-> createGoreGeometry(ret.goreIndex, ret.unfoldProgress,
                                            ret.sphereRadius, ret.currentNumGores,
                                            ret.transitionProgress, ret.gridMode)]
    /\ UNCHANGED <<posAttr, scene, ball>>
    /\ UNCHANGED animationVars

NextGore == CreateGoreGeometry

SpecGore == InitGore /\ [][NextGore]_vars

----------------------------------------------------------------------------
(* The scene graph of the gores.  scene maps every gore <<si, i>> to its
   mesh: whether it is a child of its sphere group, which mesh object and
   which geometry object it is (numbered 1, 2, ... as they are created, the
   geometry with its vertex count), its overlay children without a tag, the
   number of overlay objects made for it and not disposed, and the children
   the balls gave it: the roots of the balls on it and its proximity overlay
   (<<>> while it has none). *)

GoreIds == (0..2) \X (0..(numGores - 1))

\* Background.gridMode, never assigned after its initialiser
thisGridMode == "rectangular"

\* group.children.length of sphere group si
childrenOf(sc, si) == Cardinality({g \in DOMAIN sc : g[1] = si /\ sc[g].attached})

(* The create branch: a new mesh with a new geometry and no child of a ball.
   The old mesh is removed from its group and disposed, its children are
   not. *)
createdGore(old, call) ==
    [attached |-> TRUE, mesh |-> old.mesh + 1,
     geometry |-> [id |-> old.geometry.id + 1, count |-> vertexCountOf(thisGridMode)],
     children |-> call.created,
     liveOverlays |-> old.liveOverlays + Len(call.created),
     roots |-> 0, overlay |-> <<>>]

\* variant: the overlays of the previous call are left on the gore
rebuildOverlays_keepOld(old, call) ==
    [old EXCEPT !.children = @ \o call.overlays,
                !.liveOverlays = @ + Len(call.overlays)]

\* variant: every child of the gore is removed and disposed, tagged or not
rebuildOverlays_removeAll(old, call) ==
    [old EXCEPT !.children = call.overlays,
                !.liveOverlays = @ - Len(old.children) + Len(call.overlays),
                !.roots = 0,
                !.overlay = <<>>]

(* The selective removal and the rebuild: every child without one of the tags
   goreBall, proximityGlow, keepOverlay is removed and disposed (geometry and
   material), then the overlays of the call are added. *)
rebuildOverlays(old, call) ==
    [old EXCEPT !.children = call.overlays,
                !.liveOverlays = @ - Len(old.children) + Len(call.overlays)]

(* The reuse branch: the positions are copied into the live geometry when the
   vertex counts agree, otherwise the geometry object is replaced.  The
   selective removal keeps the roots and the proximity overlay. *)
reusedGore(old, call) ==
    rebuildOverlays(
        IF old.geometry.count = vertexCountOf(thisGridMode)
        THEN old
        ELSE [old EXCEPT !.geometry = [id |-> @.id + 1,
                                       count |-> vertexCountOf(thisGridMode)]],
        call)

\* variant: the groups are cleared and the gores created on every call
updateGoresScene_alwaysCreate(sc, call) ==
    [g \in DOMAIN sc |-> createdGore(sc[g], call)]

\* updateGores as far as the meshes of the gores go
updateGoresScene(sc, call) ==
    [g \in DOMAIN sc |->
        IF childrenOf(sc, g[1]) # numGores
        THEN createdGore(sc[g], call)
        ELSE reusedGore(sc[g], call)]

\* the calls of updateGores of one operation, one after the other
RECURSIVE updateGoresCalls(_, _, _)
updateGoresCalls(sc, calls, from) ==
    IF from > Len(calls) THEN sc
    ELSE updateGoresCalls(updateGoresScene(sc, calls[from]), calls, from + 1)

\* the groups before the first updateGores: no mesh, no geometry
emptyGroups ==
    [g \in GoreIds |-> [attached |-> FALSE, mesh |-> 0,
                        geometry |-> [id |-> 0, count |-> 0],
                        children |-> <<>>, liveOverlays |-> 0,
                        roots |-> 0, overlay |-> <<>>]]

\* the overlay of gore g, created on first use with no hotspot
ensureProximityOverlay(sc, g) ==
    IF sc[g].overlay # <<>> THEN sc
    ELSE [sc EXCEPT ![g].overlay = [visible |-> TRUE, uCount |-> 0]]

\* the scene-graph part of addBallForGore for the balls bs[from..]
RECURSIVE attachRoots(_, _, _)
attachRoots(sc, bs, from) ==
    IF from > Len(bs) THEN sc
    ELSE LET g == bs[from].gore
             s1 == [sc EXCEPT ![g].roots = @ + 1]
         IN  attachRoots(ensureProximityOverlay(s1, g), bs, from + 1)

\* the number of balls of bs on gore g
ballsOn(bs, g) == Cardinality({i \in 1..Len(bs) : bs[i].gore = g})

MAX_HOTS == 8

(* updateProximityGlows: every gore with a ball gets its overlay shown and
   fed with the positions of its balls; the other gores are not visited. *)
updateProximityGlows(sc, bs) ==
    [g \in DOMAIN sc |->
        IF ballsOn(bs, g) > 0
        THEN [ensureProximityOverlay(sc, g)[g] EXCEPT
                 !.overlay = [visible |-> TRUE,
                              uCount |-> IF ballsOn(bs, g) < MAX_HOTS
                                         THEN ballsOn(bs, g) ELSE MAX_HOTS]]
        ELSE sc[g]]

\* BallsManager.update as far as the scene graph goes (the manager is active)
update(sc, bs) == IF Len(bs) = 0 THEN sc ELSE updateProximityGlows(sc, bs)

\* clear: the root of every ball is removed from its parent
clear(sc, bs) ==
    [g \in DOMAIN sc |-> [sc[g] EXCEPT !.roots = @ - ballsOn(bs, g)]]

destroy(sc, bs) == clear(sc, bs)

(* The scene graph after one operation of Background that takes the object
   from t0 to t1: the updateGores calls of the operation have run, a
   destroyed manager has
   cleared its balls, spawned balls are attached, and a frame ends with
   balls.update. *)
sceneAfter(sc, t0, t1, frame) ==
    LET s1 == updateGoresCalls(sc, t1.goreCalls, 1)
        s2 == IF t0.ballsManager /\ ~t1.ballsManager
              THEN destroy(s1, t0.balls) ELSE s1
        s3 == IF Len(t1.balls) > Len(t0.balls)
              THEN attachRoots(s2, t1.balls, Len(t0.balls) + 1) ELSE s2
    IN  IF frame /\ t1.ballsManager THEN update(s3, t1.balls) ELSE s3

(* Background.destroy as far as the fields of the object go: the manager is
   destroyed and dropped (ballsSpawned is left as it is), the circle
   outlines leave the scene. *)
destroyBackground(t) ==
    LET t1 == IF t.ballsManager
              THEN [t EXCEPT !.balls = <<>>, !.ballsManager = FALSE]
              ELSE t
    IN  [t1 EXCEPT !.circleOutlines = 0]

----------------------------------------------------------------------------
(* The animation with the scene graph of the balls, until it is destroyed *)

\* frame deltas: 4 s, and 10 s that ends every step in one frame
LifeDts == {2400, 6000}

destroyed == lastCall.op = "destroy"

InitLife ==
    /\ InitBackground
    /\ posAttr = <<>>
    /\ scene = updateGoresCalls(emptyGroups,
                                updatePositions(updateGores(this, 0), 0).goreCalls, 1)
    /\ ball = <<>>
    /\ ret = <<>>

Operation(t, op, dt) ==
    /\ BecomeBackground(t)
    /\ scene' = sceneAfter(scene, this, t, op = "animate")
    /\ lastCall' = [op |-> op, dt |-> dt]
    /\ UNCHANGED <<simFrames, posAttr, ball, ret, companyName, app, win>>

FrameLife(dt, typingStart) ==
    /\ ~destroyed
    /\ stepProgress + dt <= MaxStepProgress
    /\ Operation(animate(this, dt, typingStart), "animate", dt)

StartWrapLife ==
    /\ ~destroyed
    /\ Operation(startWrap(this), "startWrap", 0)

StartUnwrapLife ==
    /\ ~destroyed
    /\ Operation(startUnwrap(this), "startUnwrap", 0)

TypingStartLife ==
    /\ ~destroyed
    /\ Operation(handleTypingStart(this), "companyNameTypingStart", 0)

TypingFinishedLife ==
    /\ ~destroyed
    /\ Operation(handleTypingFinished(this), "companyNameTypingFinished", 0)

HiddenLife ==
    /\ ~destroyed
    /\ Operation(handleHidden(this), "companyNameHidden", 0)

\* Background.destroy: the manager is destroyed, the gores leave their groups
Destroy ==
    /\ ~destroyed
    /\ BecomeBackground(destroyBackground(this))
    /\ scene' = [g \in GoreIds |->
                    [sceneAfter(scene, this, destroyBackground(this), FALSE)[g]
                        EXCEPT !.attached = FALSE]]
    /\ lastCall' = [op |-> "destroy", dt |-> 0]
    /\ UNCHANGED <<simFrames, posAttr, ball, ret, companyName, app, win>>

NextLife ==
    \/ \E dt \in LifeDts, typingStart \in BOOLEAN : FrameLife(dt, typingStart)
    \/ StartWrapLife
    \/ StartUnwrapLife
    \/ TypingStartLife
    \/ TypingFinishedLife
    \/ HiddenLife
    \/ Destroy

SpecLife == InitLife /\ [][NextLife]_vars

----------------------------------------------------------------------------
(* Properties of the ball geometry *)

\* the set of the elements of a sequence
Range(seq) == {seq[i] : i \in 1..Len(seq)}

\* the corners of the axis-aligned square with lower left corner c and side s
Corners(c, s) ==
    {Vec2(c.x, c.y), Vec2(c.x + s, c.y), Vec2(c.x + s, c.y + s), Vec2(c.x, c.y + s)}

\* p lies on the boundary of that square
OnSquare(p, c, s) ==
    \/ p.x \in {c.x, c.x + s} /\ c.y <= p.y /\ p.y <= c.y + s
    \/ p.y \in {c.y, c.y + s} /\ c.x <= p.x /\ p.x <= c.x + s

\* the squares with corners on the grid
GridSquares ==
    {sq \in [c : GridPoints, s : {600, 1200}] : Corners(sq.c, sq.s) \subseteq GridPoints}

hullReturned == ret # <<>> /\ ret.fn = "buildConvexHull2D"

(* C15: when every input point lies on an axis-aligned square and the four
   corners are among them, in any order and with edge points and duplicates,
   buildConvexHull2D returns four vertices which are exactly the four
   corners. *)
C15_SquareHullIsCorners ==
    hullReturned =>
        \A sq \in GridSquares :
            (/\ Corners(sq.c, sq.s) \subseteq Range(posAttr)
             /\ \A i \in 1..Len(posAttr) : OnSquare(posAttr[i], sq.c, sq.s))
            => /\ Range(ret.value) = Corners(sq.c, sq.s)
               /\ Len(ret.value) = 4

(* The hull of the large square has been computed from an input that starts
   with an edge midpoint and does not list the corners in sorted order. *)
C15_Witness ==
    /\ hullReturned
    /\ Len(posAttr) = 5
    /\ posAttr[1] = Vec2(600, 0)
    /\ posAttr[2] = Vec2(1200, 1200)
    /\ Corners(Vec2(0, 0), 1200) \subseteq Range(posAttr)
    /\ Range(ret.value) = Corners(Vec2(0, 0), 1200)

\* the input makes the monotonic chain return fewer than 3 points
Degenerate == Len(posAttr) > 0 /\ Len(monotonicChain(posAttr)) < 3

\* half the side of a returned square, taken from its first two vertices
HalfSide(sq) == (sq[2].x - sq[1].x) \div 2

\* sq is the axis-aligned square of half-side r centred at c
IsSquareAround(sq, c, r) ==
    sq = << Vec2(c.x - r, c.y - r), Vec2(c.x + r, c.y - r),
            Vec2(c.x + r, c.y + r), Vec2(c.x - r, c.y + r) >>

(* C16 as stated: on a degenerate input the result is the square centred at
   the centroid whose half-side is the largest distance of an input point
   to the centroid. *)
C16_AsStated ==
    (hullReturned /\ Degenerate) =>
        LET c == centroidOf(posAttr)
            r == HalfSide(ret.value)
        IN  /\ Len(ret.value) = 4
            /\ IsSquareAround(ret.value, c, r)
            /\ \A i \in 1..Len(posAttr) : distanceTo(posAttr[i], c) <= r
            /\ \E i \in 1..Len(posAttr) : distanceTo(posAttr[i], c) = r

(* C16: on a degenerate input the result is the square centred at the
   centroid whose half-side is the largest distance of an input point to the
   centroid, or 0.01 when no point is that far; and on every non-empty input
   the result has at least 3 vertices and every input point is inside it or
   on its border. *)
C16_FallbackSquare ==
    hullReturned =>
        /\ Len(ret.value) >= 3
        /\ \A i \in 1..Len(posAttr) : pointInPolygon(posAttr[i], ret.value)
        /\ Degenerate =>
              LET c == centroidOf(posAttr)
                  r == HalfSide(ret.value)
              IN  /\ Len(ret.value) = 4
                  /\ IsSquareAround(ret.value, c, r)
                  /\ r >= minFallbackRadius
                  /\ \A i \in 1..Len(posAttr) : distanceTo(posAttr[i], c) <= r
                  /\ \/ r = minFallbackRadius
                     \/ \E i \in 1..Len(posAttr) : distanceTo(posAttr[i], c) = r

(* Three distinct collinear points on a diagonal, not in sorted order, have
   been replaced by a square larger than the least one. *)
C16_Witness ==
    /\ hullReturned
    /\ posAttr = << Vec2(1200, 1200), Vec2(0, 0), Vec2(600, 600) >>
    /\ Degenerate
    /\ Len(ret.value) = 4
    /\ HalfSide(ret.value) > minFallbackRadius

ballSpawned == ball # <<>> /\ ret # <<>> /\ ret.fn = "addBallForGore"

\* the farthest vertex of the gore the ball was put on
TipOfGore == tipFrom(posAttr, 1, -1, Vec2(0, 0))

(* C12: a ball that addBallForGore has just placed is at the farthest
   vertex of its gore when that vertex is valid, and at a valid point
   (inside the hull, inside no exclusion polygon) otherwise. *)
C12_SpawnedAtValidPoint ==
    ballSpawned =>
        /\ pointValidLocal(TipOfGore, ball.hull, ball.exPolys) => ball.pos = TipOfGore
        /\ pointValidLocal(ball.pos, ball.hull, ball.exPolys)

\* p is strictly inside the convex polygon poly
StrictlyInside(p, poly) ==
    LET nxt(i) == IF i = Len(poly) THEN 1 ELSE i + 1
    IN  \/ \A i \in 1..Len(poly) : cross(poly[i], poly[nxt(i)], p) > 0
        \/ \A i \in 1..Len(poly) : cross(poly[i], poly[nxt(i)], p) < 0

sampled == ret # <<>> /\ ret.fn = "randomAllowedPointInside"

\* the samples that 20 tries draw from the stream, and the 16 probes
SamplesOf(r) ==
    [i \in 1..maxTries |-> randomPointInsideHull(r.hull, r.centroid, DrawAt(r.stream, i))]
ProbesOf(r) ==
    [a \in 1..16 |-> Vec2(r.centroid.x + probeOffsets[a].x,
                          r.centroid.y + probeOffsets[a].y)]

\* the first element of a sequence of points that is valid; some element is
FirstValid(seq, hull, exPolys) ==
    seq[CHOOSE i \in 1..Len(seq) :
            /\ pointValidLocal(seq[i], hull, exPolys)
            /\ \A j \in 1..(i - 1) : ~pointValidLocal(seq[j], hull, exPolys)]

SomeValid(seq, hull, exPolys) ==
    \E i \in 1..Len(seq) : pointValidLocal(seq[i], hull, exPolys)

(* C13: randomAllowedPointInside returns a point inside the boundary hull,
   which is the first valid one of the 20 samples, or with no valid sample
   the first valid one of the 16 probes at 0.1 around the centroid, or with
   none of the 36 valid the centroid. *)
C13_SampleOrProbeOrCentroid ==
    sampled =>
        LET samples == SamplesOf(ret)
            probes == ProbesOf(ret)
            value == ret.result.value
        IN  /\ pointInPolygon(value, ret.hull)
            /\ IF SomeValid(samples, ret.hull, ret.exPolys)
               THEN value = FirstValid(samples, ret.hull, ret.exPolys)
               ELSE IF SomeValid(probes, ret.hull, ret.exPolys)
               THEN value = FirstValid(probes, ret.hull, ret.exPolys)
               ELSE value = ret.centroid

(* Twenty samples were rejected and a probe that is not the first one was
   returned. *)
C13_Witness ==
    /\ sampled
    /\ ~SomeValid(SamplesOf(ret), ret.hull, ret.exPolys)
    /\ SomeValid(ProbesOf(ret), ret.hull, ret.exPolys)
    /\ ret.result.value # ProbesOf(ret)[1]
    /\ ret.result.value # ret.centroid
    /\ ret.result.tries = maxTries

validityTested == ret # <<>> /\ ret.fn = "pointValidLocal"

(* C14: pointValidLocal is false for a point strictly inside an exclusion
   polygon, also when the point is inside the hull, and true for the
   centroid of the hull's vertices when there is no exclusion polygon. *)
C14_ExcludedInvalidCentroidValid ==
    validityTested =>
        /\ (\E k \in 1..Len(ret.exPolys) : StrictlyInside(ret.p, ret.exPolys[k]))
              => ret.value = FALSE
        /\ (ret.exPolys = <<>> /\ ret.p = centroidOf(ret.hull)) => ret.value = TRUE

(* A point strictly inside the hull and strictly inside an exclusion polygon
   was found invalid. *)
C14_Witness ==
    /\ validityTested
    /\ StrictlyInside(ret.p, ret.hull)
    /\ \E k \in 1..Len(ret.exPolys) : StrictlyInside(ret.p, ret.exPolys[k])
    /\ ret.value = FALSE

\* the gores other than the current one whose sphere is smaller than radius
SmallerGores(sc, radius) ==
    {i \in 1..Len(sc.objects) :
        /\ sc.objects[i].isGore
        /\ i # sc.current
        /\ sc.objects[i].sphereRadius < radius}

(* C17: the exclusion polygons of a ball are the hulls of the gores other
   than its own whose sphere radius is strictly smaller than that of its
   own sphere, one polygon for each and none for another object: 18 for a
   ball on the outer sphere, 9 on the middle sphere, 0 on the inner one. *)
C17_OnePolygonPerSmallerGore ==
    ballSpawned =>
        LET own == scene.objects[scene.current]
            smaller == SmallerGores(scene, own.sphereRadius)
        IN  /\ Len(ball.exPolys) = Cardinality(smaller)
            /\ \A i \in smaller :
                  \E k \in 1..Len(ball.exPolys) :
                      ball.exPolys[k] = buildConvexHull2D(scene.objects[i].pts)
            /\ \A k \in 1..Len(ball.exPolys) :
                  \E i \in smaller :
                      ball.exPolys[k] = buildConvexHull2D(scene.objects[i].pts)
            /\ Len(ball.exPolys) =
                  CASE own.sphereIndex = 0 -> 2 * numGores
                    [] own.sphereIndex = 1 -> numGores
                    [] OTHER -> 0

\* a ball on the outer sphere got its 18 polygons, of two different shapes
C17_Witness ==
    /\ ballSpawned
    /\ scene.objects[scene.current].sphereIndex = 0
    /\ Len(ball.exPolys) = 18
    /\ ball.exPolys[1] # ball.exPolys[18]

ballUpdated == ball # <<>> /\ ret # <<>> /\ ret.fn = "update"

\* the point the frame proposed, from the inputs kept in ret
ProposedOf(r) == addScaled(r.from, r.rnd.vel, r.dt)

\* the point at k/64 of the inward-adjusted step of the frame
FractionOf(r, k) ==
    LET inward == normalizedTo(Vec2(ball.center.x - r.from.x,
                                    ball.center.y - r.from.y), inwardLength)
    IN  testPoint(r.from, Vec2(r.rnd.vel.x + inward.x, r.rnd.vel.y + inward.y),
                  r.dt, k)

ValidForBall(p) == pointValidLocal(p, ball.hull, ball.exPolys)

(* C11: a ball that was at a valid position before update(dt) is at a valid
   position after it, for every dt, velocity and retargeting of the frame;
   the new position is the proposed point when that is valid, and otherwise
   a valid point at k/64 of the inward-adjusted step with k in 1..63, or the
   old position when none of the six probes 1/2, 1/4, ..., 1/64 is valid. *)
C11_UpdateKeepsValid ==
    (ballUpdated /\ ValidForBall(ret.from)) =>
        /\ ValidForBall(ball.pos)
        /\ IF ValidForBall(ProposedOf(ret))
           THEN ball.pos = ProposedOf(ret)
           ELSE \/ \E k \in 1..63 :
                      ball.pos = FractionOf(ret, k) /\ ValidForBall(FractionOf(ret, k))
                \/ /\ ball.pos = ret.from
                   /\ \A k \in {32, 16, 8, 4, 2, 1} : ~ValidForBall(FractionOf(ret, k))

(* A ball at a valid position proposed an invalid point and was moved to a
   valid point of the adjusted step that is not its middle. *)
C11_Witness ==
    /\ ballUpdated
    /\ ValidForBall(ret.from)
    /\ ~ValidForBall(ProposedOf(ret))
    /\ ball.pos # ret.from
    /\ ball.pos # FractionOf(ret, 32)
    /\ \E k \in 1..63 : ball.pos = FractionOf(ret, k)
    /\ ValidForBall(ball.pos)

----------------------------------------------------------------------------
(* Properties of the balls within the animation *)

\* balls are only added by one run of spawnDefaultBalls, and only removed by startWrap
SpawnOnceThenWrap ==
    balls' # balls =>
        \/ /\ balls = <<>>
           /\ ~ballsSpawned
           /\ [i \in 1..Len(balls') |-> balls'[i].gore] = DefaultBallGores
           /\ ballsSpawned'
           /\ lastCall'.op = "animate"
        \/ /\ balls' = <<>>
           /\ ~ballsSpawned'
           /\ lastCall'.op = "startWrap"

(* C18: there are never more than 3 live balls: the balls are only ever
   added by a frame that finds none and no spawn recorded, which adds the 3
   default balls and records the spawn, and they are only ever removed, and
   the record cleared, by startWrap. *)
C18_AtMostThreeBalls ==
    /\ [](Len(balls) <= 3 /\ (ballsSpawned <=> balls # <<>>))
    /\ [][SpawnOnceThenWrap]_vars

(* A frame has run in the idle state with the 3 balls alive while a new
   spawn was pending and the glow fully revealed. *)
C18_Witness ==
    /\ Len(balls) = 3
    /\ animationStep = "UNWRAPPED_IDLE"
    /\ pendingBallSpawn
    /\ glowOutlineActive
    /\ glowOutlineProgress >= 1000
    /\ lastCall.op = "animate"

\* the regions of ball i were computed from the gores as they are now
RegionsCurrent(i) ==
    balls[i].regions = [geom |-> goreGeom, goreY |-> goreY]

(* C20: whenever a ball exists, the gores have the shape and the transforms
   its hull and exclusion polygons were computed from: unfold progress 1,
   twist 0, and the position and rotation of the spawn. *)
C20_RegionsNeverStale ==
    \A i \in 1..Len(balls) :
        /\ RegionsCurrent(i)
        /\ goreGeom.unfoldProgress = 1000
        /\ goreGeom.twistAmount = 0

(* Apart from the twist, the gores keep the unfold progress, the placement
   and the positions the regions of every ball were computed from. *)
RegionsCurrentBesideTwist ==
    \A i \in 1..Len(balls) :
        /\ balls[i].regions.goreY = goreY
        /\ balls[i].regions.geom.unfoldProgress = goreGeom.unfoldProgress
        /\ balls[i].regions.geom.placement = goreGeom.placement
        /\ goreGeom.unfoldProgress = 1000


----------------------------------------------------------------------------
(* updateGores on the vertices of one reused gore.  posAttr is the position
   attribute of the live geometry of the gore; ret keeps the arguments (the
   fields of the object the call reads), the number of calls made, and what
   the first call left. *)

\* Background.twistTurns, in thousandths of a revolution
twistTurns == 150
\* Background.transitionProgress, never assigned after its initialiser
thisTransitionProgress == 1000

(* applyHelicalTwist on a position array: every vertex is turned around the
   y axis by totalAngle * yNorm, yNorm being its height within the vertical
   range of the array.  Angles are in thousandths of pi. *)
applyHelicalTwistTo(points, amount01) ==
    IF amount01 <= 0 THEN points
    ELSE LET ys == {points[k].y : k \in DOMAIN points}
             minY == CHOOSE y \in ys : \A z \in ys : y <= z
             maxY == CHOOSE y \in ys : \A z \in ys : y >= z
             range == Max(1, maxY - minY)
             totalAngle == mul(amount01, twistTurns) * 2
         IN  [k \in DOMAIN points |->
                LET p == points[k]
                    yNorm == ((p.y - minY) * 1000) \div range
                    angle == mul(totalAngle, yNorm)
                    s == sinAngle(angle)
                    c == cosAngle(angle)
                IN  Vec3(mul(p.x, c) - mul(p.z, s), p.y, mul(p.x, s) + mul(p.z, c))]

\* variant: the twist is applied to the live positions of the gore
goreVertices_twistLive(old, goreIndex, unfoldProgress, rSphere, twistAmount) ==
    IF twistAmount > 0 /\ old # <<>>
    THEN applyHelicalTwistTo(old, twistAmount)
    ELSE pointsOf(goreIndex, unfoldProgress, rSphere, numGores, thisTransitionProgress, thisGridMode)

(* The reuse branch for gore i: a temporary geometry is created from the
   arguments, twisted, and its positions are copied over the live ones (or
   the geometry object is replaced when the counts differ). *)
goreVertices(old, goreIndex, unfoldProgress, rSphere, twistAmount) ==
    LET newGeom == createGoreGeometry(goreIndex, unfoldProgress, rSphere, numGores, thisTransitionProgress, thisGridMode)
        newPosAttr == IF twistAmount > 0
                      THEN applyHelicalTwistTo(newGeom.points, twistAmount)
                      ELSE newGeom.points
    IN  IF Len(old) = Len(newPosAttr) THEN newPosAttr ELSE newPosAttr

\* gore.position.y and the angle of gore.quaternion around the z axis
goreTransform(goreIndex, sphereY, rSphere, placementProgress) ==
    LET angleStep == angleStepOf(numGores, thisTransitionProgress)
        centerAngle == ((2 * goreIndex + 1) * angleStep) \div 2
    IN  [y |-> sphereY - rSphere,
         angle |-> mul(centerAngle, easeInOutCubic(placementProgress))]

\* number of updateGores calls made in a row
MaxCalls == 3

TwistAmounts == {0, 1, 500, 1000}
PlacementProgresses == {0, 500, 1000}

InitRebuild ==
    /\ InitBackground
    /\ scene = <<>>
    /\ ball = <<>>
    /\ ret \in [fn : {"updateGores"}, calls : {0}, first : {<<>>},
                transform : {<<>>},
                goreIndex : {0, 4}, unfoldProgress : {0, 500, 1000},
                sphereRadius : Radii, twistAmount : TwistAmounts,
                placement : PlacementProgresses]
    /\ posAttr = <<>>

\* one more call with the same arguments
UpdateGores ==
    /\ ret.calls < MaxCalls
    /\ posAttr' = goreVertices(posAttr, ret.goreIndex, ret.unfoldProgress, ret.sphereRadius, ret.twistAmount)
    /\ ret' = [ret EXCEPT
                 !.calls = @ + 1,
                 !.transform = goreTransform(ret.goreIndex, largeCenter, ret.sphereRadius, ret.placement),
                 !.first = IF ret.calls = 0
                           THEN [positions |-> posAttr',
                                 transform |-> goreTransform(ret.goreIndex, largeCenter, ret.sphereRadius, ret.placement)]
                           ELSE @]
    /\ UNCHANGED <<scene, ball>>
    /\ UNCHANGED animationVars

NextRebuild == UpdateGores

SpecRebuild == InitRebuild /\ [][NextRebuild]_vars

----------------------------------------------------------------------------
(* Properties of the scene graph of the balls *)

\* the overlay of gore g shows hotspots of balls
showsHotspots(g) ==
    /\ scene[g].overlay # <<>>
    /\ scene[g].overlay.visible
    /\ scene[g].overlay.uCount > 0

\* the gores that are in the scene
AttachedGores == {g \in DOMAIN scene : scene[g].attached}

(* C19: nothing created for the balls persists across a reset: while the
   manager is destroyed (after startWrap or Background.destroy), no ball root
   is attached to a gore and no gore of the scene keeps a proximity overlay
   that still shows ball hotspots. *)
C19_NothingPersists ==
    ~ballsManager =>
        \A g \in AttachedGores : scene[g].roots = 0 /\ ~showsHotspots(g)

\* the roots of the balls do not persist, and live balls have their roots
RootsFollowBalls ==
    \A g \in DOMAIN scene : scene[g].roots = ballsOn(balls, g)

\* Background.destroy leaves no gore in the scene
NoGoreAfterDestroy == destroyed => AttachedGores = {}

----------------------------------------------------------------------------
(* Properties of the gore geometry *)

geometryCreated == ret # <<>> /\ ret.fn = "createGoreGeometry"

\* the vertex count the grid mode stands for
VertexCount(gridMode) ==
    CASE gridMode = "rectangular" -> 17 * 9
      [] gridMode = "minimal" -> 4 * 3
      [] gridMode = "triangular" -> 21 * 11
      [] gridMode = "radial" -> 13 * 25

(* C21: createGoreGeometry returns (latitudeSteps+1)*(longitudeSteps+1)
   vertices, 153, 12, 231 or 325 by the grid mode alone, whatever goreIndex,
   unfoldProgress, sphereRadius, currentNumGores and transitionProgress. *)
C21_VertexCountByMode ==
    geometryCreated =>
        /\ Len(ret.value.points) = VertexCount(ret.args.gridMode)
        /\ Len(ret.value.points) = ret.value.userData.latCount * ret.value.userData.lonCount
        /\ VertexCount(ret.args.gridMode) \in {153, 12, 231, 325}

\* a radial geometry of the last gore, partly unfolded, has its 325 vertices
C21_Witness ==
    /\ geometryCreated
    /\ ret.args.gridMode = "radial"
    /\ ret.args.goreIndex = 8
    /\ ret.args.unfoldProgress = 250
    /\ Len(ret.value.points) = 325

\* the three indices of triangle n (from 1) of an index buffer
Triangle(index, n) == <<index[3 * n - 2], index[3 * n - 1], index[3 * n]>>

\* twice the signed area of a triangle of vertex indices, in grid coordinates
GridArea(tri, lonCount) ==
    LET lonOf(i) == i % lonCount
        latOf(i) == i \div lonCount
    IN  (lonOf(tri[2]) - lonOf(tri[1])) * (latOf(tri[3]) - latOf(tri[1]))
        - (latOf(tri[2]) - latOf(tri[1])) * (lonOf(tri[3]) - lonOf(tri[1]))

(* C23: the index buffer holds 2*latitudeSteps*longitudeSteps triangles, every
   index is below the vertex count, the two triangles of a cell share one
   diagonal, use the four corners of the cell and turn the same way; the
   diagonal is b-c or a-d by the parity of lat+lon in triangular mode and
   a-d in the other modes. *)
C23_TwoTrianglesPerCell ==
    geometryCreated =>
        LET g == ret.value
            st == stepsOf(ret.args.gridMode)
            lonCount == st.longitudeSteps + 1
        IN  /\ Len(g.index) = 3 * (2 * st.latitudeSteps * st.longitudeSteps)
            /\ \A k \in 1..Len(g.index) : g.index[k] \in 0..(Len(g.points) - 1)
            /\ \A lat \in 0..(st.latitudeSteps - 1), lon \in 0..(st.longitudeSteps - 1) :
                  LET n == lat * st.longitudeSteps + lon
                      t1 == Triangle(g.index, 2 * n + 1)
                      t2 == Triangle(g.index, 2 * n + 2)
                      q == cellCorners(lat, lon, st.longitudeSteps)
                      shared == Range(t1) \cap Range(t2)
                  IN  /\ Range(t1) \cup Range(t2) = {q.a, q.b, q.c, q.d}
                      /\ Cardinality(Range(t1)) = 3
                      /\ Cardinality(Range(t2)) = 3
                      /\ GridArea(t1, lonCount) = 1
                      /\ GridArea(t2, lonCount) = 1
                      /\ shared = IF ret.args.gridMode = "triangular"
                                     /\ (lat + lon) % 2 = 0
                                  THEN {q.b, q.c} ELSE {q.a, q.d}

\* a triangular geometry, whose first two cells are split along b-c then a-d
C23_Witness ==
    /\ geometryCreated
    /\ ret.args.gridMode = "triangular"
    /\ Range(Triangle(ret.value.index, 1)) \cap Range(Triangle(ret.value.index, 2)) = {1, 11}
    /\ Range(Triangle(ret.value.index, 3)) \cap Range(Triangle(ret.value.index, 4)) = {1, 13}

\* a + (b - a) * t at weight t, one thousandth of rounding allowed
NearLerp(x, a, b, t) == abs(x - (a + ((b - a) * t) \div 1000)) <= 1

(* C24: every vertex is the interpolation, weighted by unfoldProgress, of its
   spherical point and its flattened point, shifted by +sphereRadius in Y: at
   0 it is the point of the sphere of radius sphereRadius (its distance to the
   centre is the radius, within the 2 % of the sine table), at 1 it is the
   flattened point, whose z is 0 unless the mode is radial. *)
C24_VertexIsLerp ==
    geometryCreated =>
        LET a == ret.args
            st == stepsOf(a.gridMode)
            lonCount == st.longitudeSteps + 1
        IN  \A k \in 1..Len(ret.value.points) :
                LET lat == (k - 1) \div lonCount
                    lon == (k - 1) % lonCount
                    p == ret.value.points[k]
                    s == sphericalPoint(lat, lon, a.goreIndex, a.sphereRadius,
                                        a.currentNumGores, a.transitionProgress,
                                        a.gridMode)
                    f == flatPoint(lat, lon, a.sphereRadius, a.currentNumGores,
                                   a.transitionProgress, a.gridMode)
                    d2 == mul(p.x, p.x) + mul(p.y - a.sphereRadius, p.y - a.sphereRadius)
                          + mul(p.z, p.z)
                    r2 == mul(a.sphereRadius, a.sphereRadius)
                IN  /\ NearLerp(p.x, s.x, f.x, a.unfoldProgress)
                    /\ NearLerp(p.y - a.sphereRadius, s.y, f.y, a.unfoldProgress)
                    /\ NearLerp(p.z, s.z, f.z, a.unfoldProgress)
                    /\ a.unfoldProgress = 0 =>
                          /\ p = Vec3(s.x, s.y + a.sphereRadius, s.z)
                          /\ abs(d2 - r2) * 100 <= 2 * r2
                    /\ a.unfoldProgress = 1000 =>
                          /\ p = Vec3(f.x, f.y + a.sphereRadius, f.z)
                          /\ a.gridMode # "radial" => p.z = 0

\* a half unfolded gore with a vertex strictly between its two end points
C24_Witness ==
    /\ geometryCreated
    /\ ret.args.unfoldProgress = 500
    /\ ret.args.gridMode = "rectangular"
    /\ \E k \in 1..Len(ret.value.points) :
          LET lonCount == stepsOf(ret.args.gridMode).longitudeSteps + 1
              s == sphericalPoint((k - 1) \div lonCount, (k - 1) % lonCount,
                                  ret.args.goreIndex, ret.args.sphereRadius,
                                  ret.args.currentNumGores,
                                  ret.args.transitionProgress, ret.args.gridMode)
          IN  /\ s.z > 100
              /\ ret.value.points[k].z > 0
              /\ ret.value.points[k].z < s.z

\* unfolded radial gores do leave the plane z = 0
RadialLeavesThePlane ==
    /\ geometryCreated
    /\ ret.args.unfoldProgress = 1000
    /\ ret.args.gridMode = "radial"
    /\ \E k \in 1..Len(ret.value.points) : ret.value.points[k].z # 0

----------------------------------------------------------------------------
(* Properties of the gore meshes *)

\* the last operation called updateGores
goresUpdated == goreCalls # <<>>

(* C22: after the updateGores call of the construction, every later call
   finds 9 gore meshes in each of the three sphere groups and updates their
   positions in place: until destroy every gore is still the first mesh with
   the first geometry object. *)
C22_GoresUpdatedInPlace ==
    ~destroyed =>
        /\ \A si \in 0..2 : childrenOf(scene, si) = numGores
        /\ \A g \in DOMAIN scene :
              /\ scene[g].mesh = 1
              /\ scene[g].geometry = [id |-> 1, count |-> vertexCountOf(thisGridMode)]

\* a frame of the second cycle has rebuilt the gores and they are the first ones
C22_Witness ==
    /\ ~destroyed
    /\ goresUpdated
    /\ lastCall.op = "animate"
    /\ animationStep = "DEFORMING_GORES"
    /\ \A g \in DOMAIN scene : scene[g].mesh = 1 /\ scene[g].geometry.id = 1

----------------------------------------------------------------------------
(* Properties of the vertical placement *)

\* the gore height the reuse branch of updateGores assigns in this state
YByUpdateGores(si) == sphereYs[si] - sphereRadius[si]

\* the gore height updatePositions assigns in this state
YByUpdatePositions(si) ==
    lerp(sphereYs[si], targetBottom + sphereRadius[si], unwrappingT)
        - sphereRadius[si]

(* C25: whenever unwrappingT > 0 the bottoms of the three sphere groups are at
   the target height 2.3: the gores are there, and both updatePositions and
   the reuse branch of updateGores would put them there. *)
C25_BottomsAligned ==
    unwrappingT > 0 =>
        \A si \in 1..3 :
            /\ goreY[si] = targetBottom
            /\ YByUpdateGores(si) = targetBottom
            /\ YByUpdatePositions(si) = targetBottom

\* half wrapped gores that a typing event has just placed again
C25_Witness ==
    /\ animationStep = "WRAPPING"
    /\ unwrappingT > 0
    /\ unwrappingT < 1000
    /\ lastCall.op = "companyNameTypingFinished"
    /\ goreCalls # <<>>
    /\ goreY = <<targetBottom, targetBottom, targetBottom>>

----------------------------------------------------------------------------
(* Properties of the caption timing *)

\* the gap between two captions as the earlier phases show it
GapOfEarlierPhases ==
    Max(0, ((D_INITIAL_CIRCLES_MOVE
               - (STAGE_TYPE_SEC + STAGE_HOLD_FIRST_SEC + STAGE_BACK_SEC))
            + (D_FORMING_GORES - STAGE_BACK_SEC)) \div 2)

\* a frame has run the UNWRAPPING branch and the step is not over
unwrappingShown ==
    /\ animationStep = "UNWRAPPING"
    /\ unwrTextInit
    /\ stageText = "TRANSFORM"

(* C26: the hold of the UNWRAPPING caption is the UNWRAPPING duration less
   typing, backspacing and the gap of the earlier phases, so typing + hold +
   backspacing + gap is the 8.0 s of UNWRAPPING, and the caption, once typed,
   is fully erased exactly from gap seconds before the end of UNWRAPPING on. *)
C26_CaptionGapMatches ==
    /\ getUnwrapHoldToMatchGap
          = Max(0, D_UNWRAPPING - (STAGE_TYPE_SEC + STAGE_BACK_SEC + GapOfEarlierPhases))
    /\ STAGE_TYPE_SEC + getUnwrapHoldToMatchGap + STAGE_BACK_SEC + GapOfEarlierPhases
          = 8 * ticksPerSecond
    /\ D_UNWRAPPING = 8 * ticksPerSecond
    /\ (unwrappingShown /\ stepProgress >= STAGE_TYPE_SEC) =>
          (stageTextContent.len = 0 <=> stepProgress >= D_UNWRAPPING - GapOfEarlierPhases)

\* the 60 Hz frame at 5.35 s of UNWRAPPING, the first with the caption erased
C26_Witness ==
    /\ unwrappingShown
    /\ stepProgress = D_UNWRAPPING - GapOfEarlierPhases
    /\ stageTextContent.len = 0

----------------------------------------------------------------------------
(* Properties of the overlays of the gores *)

(* C27: overlays do not accumulate: after every operation each gore has at
   most 3 overlay children without one of the tags goreBall, proximityGlow,
   keepOverlay, they are those of the last updateGores call, and every
   overlay made by an earlier call has been removed and disposed. *)
C27_OverlaysDoNotAccumulate ==
    \A g \in DOMAIN scene :
        /\ Len(scene[g].children) <= 3
        /\ scene[g].liveOverlays = Len(scene[g].children)
        /\ goresUpdated => scene[g].children = goreCalls[Len(goreCalls)].overlays

\* a glowing wireframe gore of the second cycle with its three overlays
C27_Witness ==
    /\ animationStep = "WRAPPING"
    /\ goresUpdated
    /\ Len(goreCalls) >= 2
    /\ \A g \in DOMAIN scene : scene[g].children = <<"wireframe", "glowA", "glowB">>

----------------------------------------------------------------------------
(* Properties of the ball spawn *)

(* C28: balls exist only in UNWRAPPED_IDLE: after every frame, trigger and
   event, ballsSpawned or a non-empty ball set implies that the animation
   step is UNWRAPPED_IDLE. *)
C28_BallsOnlyWhenIdle ==
    (ballsSpawned \/ balls # <<>>) => animationStep = "UNWRAPPED_IDLE"

\* three balls alive in UNWRAPPED_IDLE after a later frame
C28_Witness ==
    /\ Len(balls) = 3
    /\ ballsSpawned
    /\ animationStep = "UNWRAPPED_IDLE"
    /\ lastCall.op = "animate"
    /\ stepProgress > 0


(* C29: the ball spawn is deferred until the glow is fully revealed: on the
   page, a step that spawns the balls is a frame that ends with
   glowOutlineActive true, glowOutlineProgress at 1 and the post-typing glow
   tween finished; no other operation spawns, and no frame does while the
   tween is below 1 or after companyNameHidden has deactivated the glow
   without a later companyNameTypingFinished. *)
C29_SpawnOnlyWhenRevealed ==
    [][(~ballsSpawned /\ ballsSpawned')
         => /\ lastCall'.op = "animate"
            /\ glowOutlineActive'
            /\ glowOutlineProgress' >= 1000
            /\ ~glowPostAnimating']_vars


\* the balls spawned by the frame in which the tween of the typed name ended
C29_Witness ==
    /\ ballsSpawned
    /\ Len(balls) = 3
    /\ lastCall.op = "animate"
    /\ companyName.animation = "pulse"
    /\ glowOutlineActive
    /\ glowOutlineProgress = 1000
    /\ ~glowPostAnimating
    /\ ~pendingBallSpawn


\* companyNameTypingFinished was just received in UNWRAPPED_IDLE, with the
\* two seconds of the tween inside the explored time
FinishedWhileIdle ==
    /\ lastCall.op = "companyNameTypingFinished"
    /\ animationStep = "UNWRAPPED_IDLE"
    /\ stepProgress + glowPostDurationMs <= MaxStepProgress

\* the frame ends the glow tween
TweenEnds == glowPostAnimating /\ ~glowPostAnimating' /\ lastCall'.op = "animate"

(* C30: when companyNameTypingFinished is received in UNWRAPPED_IDLE and
   frames keep being delivered, the balls are eventually spawned unless
   startWrap() is called or companyNameHidden arrives; and while the spawn
   is pending in UNWRAPPED_IDLE, the balls are spawned by the frame in which
   the glow tween reaches 1 and by no earlier step. *)
C30_SpawnWhenTweenEnds ==
    /\ FinishedWhileIdle
         ~> (ballsSpawned \/ lastCall.op \in {"startWrap", "companyNameHidden"})
    /\ [][(/\ animationStep = "UNWRAPPED_IDLE"
           /\ pendingBallSpawn /\ glowOutlineActive /\ glowPostAnimating
           /\ ~ballsSpawned)
            => (ballsSpawned' <=> TweenEnds)]_vars

\* the third 2/3 s frame after the name was typed ended the tween and spawned
C30_Witness ==
    /\ ballsSpawned
    /\ animationStep = "UNWRAPPED_IDLE"
    /\ lastCall = [op |-> "animate", dt |-> 400]
    /\ stepProgress >= glowPostDurationMs
    /\ ~glowPostAnimating
    /\ glowPostElapsed = 0
    /\ companyName = [visible |-> TRUE, animation |-> "pulse", progress |-> 1000]


----------------------------------------------------------------------------
(* Properties of the whole sequence *)

(* C31: timed steps always terminate: with frames that keep being delivered
   and whose dt is positive, INITIAL_CIRCLES_MOVE, FORMING_GORES and
   UNWRAPPING lead to UNWRAPPED_IDLE, and WRAPPING and DEFORMING_GORES lead
   to EYE_IDLE; no trigger call is needed for it. *)
C31_TimedStepsTerminate ==
    /\ (animationStep \in {"INITIAL_CIRCLES_MOVE", "FORMING_GORES", "UNWRAPPING"})
         ~> (animationStep = "UNWRAPPED_IDLE")
    /\ (animationStep \in {"WRAPPING", "DEFORMING_GORES"})
         ~> (animationStep = "EYE_IDLE")

\* the frame that ended DEFORMING_GORES has just entered EYE_IDLE
C31_Witness ==
    /\ animationStep = "EYE_IDLE"
    /\ lastCall.op = "animate"
    /\ lastCall.dt > 0
    /\ stepProgress = 0
    /\ circleDrawProgress = 1000


(* C32: onAnimationComplete is invoked exactly once by the frame that takes
   the machine from UNWRAPPING to UNWRAPPED_IDLE, and by no other frame,
   trigger or event handler: the number of invocations made by a step is 1
   when the step is that transition and 0 otherwise. *)
C32_CompletionCalledOnce ==
    [][/\ completeCalls' =
            IF animationStep = "UNWRAPPING" /\ animationStep' = "UNWRAPPED_IDLE"
            THEN 1 ELSE 0
       /\ completeCalls' > 0 => lastCall'.op = "animate"]_vars

\* the frame that completed the unwrap has just invoked the callback
C32_Witness ==
    /\ completeCalls = 1
    /\ lastCall.op = "animate"
    /\ animationStep = "UNWRAPPED_IDLE"
    /\ stepProgress = 0
    /\ unwrappingT = 1000


\* the steps of the reverse half
ReverseSteps == {"WRAPPING", "DEFORMING_GORES"}

(* C33: setReverseEnabled controls whether the reverse half runs: while
   reverseEnabled is false, no step takes the machine from outside WRAPPING
   and DEFORMING_GORES into them; in particular startWrap() leaves it in
   UNWRAPPED_IDLE. *)
C33_ReverseDisabledNeverWraps ==
    [][(~reverseEnabled /\ animationStep \notin ReverseSteps)
         => animationStep' \notin ReverseSteps]_vars


\* the stage word the claim assigns to a step
WordOf(step) ==
    CASE step = "INITIAL_CIRCLES_MOVE" -> "OBSERVE"
      [] step = "FORMING_GORES" -> "DISCOVER"
      [] step = "UNWRAPPING" -> "TRANSFORM"
      [] OTHER -> stageTextContent.word

(* C34: the caption typed and backspaced in INITIAL_CIRCLES_MOVE is OBSERVE in
   every cycle, also after startUnwrap(); in FORMING_GORES it is DISCOVER and
   in UNWRAPPING it is TRANSFORM: whenever letters are on the screen they
   are letters of the word of the current step. *)
C34_CaptionIsWordOfStep ==
    stageTextContent.len > 0 => stageTextContent.word = WordOf(animationStep)


(* C35: overlay rebuilds never remove balls: a step in which updateGores is
   called leaves every gore attached, with every ball root it had and with
   its proximity overlay if it had one; and while balls are alive, each gore
   carries exactly the roots of the balls spawned on it. *)
C35_RebuildsKeepBalls ==
    /\ [](balls # <<>> =>
            \A g \in DOMAIN scene :
                scene[g].attached /\ scene[g].roots = ballsOn(balls, g))
    /\ [][goreCalls' # <<>> =>
            \A g \in DOMAIN scene :
                /\ scene'[g].attached
                /\ scene'[g].roots >= scene[g].roots
                /\ scene[g].overlay # <<>> => scene'[g].overlay # <<>>]_vars

\* idle frames have rebuilt the overlays and the three balls are on their gores
C35_Witness ==
    /\ Len(balls) = 3
    /\ lastCall.op = "animate"
    /\ goreCalls # <<>>
    /\ stepProgress > 0
    /\ \A i \in 1..3 : /\ scene[balls[i].gore].roots = 1
                       /\ scene[balls[i].gore].overlay # <<>>
                       /\ scene[balls[i].gore].attached


----------------------------------------------------------------------------
(* Properties of repeated rebuilds *)

(* C36: updateGores is idempotent on the gore geometry: after two or more
   calls in a row with the same unfold progress and the same state, the
   vertex positions and the transform of the gore are those the first call
   left; the twist does not accumulate. *)
C36_RebuildIsIdempotent ==
    (ret # <<>> /\ ret.fn = "updateGores" /\ ret.calls >= 1) =>
        /\ posAttr = ret.first.positions
        /\ ret.transform = ret.first.transform

\* three calls in a row on a gore half unfolded and at peak twist
C36_Witness ==
    /\ ret # <<>>
    /\ ret.fn = "updateGores"
    /\ ret.calls = 3
    /\ ret.twistAmount = 1000
    /\ ret.unfoldProgress = 500
    /\ posAttr = ret.first.positions
    /\ \E k \in DOMAIN posAttr : posAttr[k].z # 0


----------------------------------------------------------------------------
(* Properties of the unfold progress *)

(* C37: the unfold progress is pinned by the step after every frame, trigger
   and event: unwrappingT is 1 in UNWRAPPED_IDLE and 0 in
   INITIAL_CIRCLES_MOVE, FORMING_GORES, DEFORMING_GORES and EYE_IDLE. *)
C37_UnfoldPinnedByStep ==
    /\ animationStep = "UNWRAPPED_IDLE" => unwrappingT = 1000
    /\ animationStep \in {"INITIAL_CIRCLES_MOVE", "FORMING_GORES",
                          "DEFORMING_GORES", "EYE_IDLE"} => unwrappingT = 0

\* the second forward flow has started from the idle eye, folded
C37_Witness ==
    /\ animationStep = "FORMING_GORES"
    /\ unwrappingT = 0
    /\ lastCall.op = "animate"
    /\ stageText = "DISCOVER"
    /\ reverseStartYs # <<4500, 4500, 4500>>


----------------------------------------------------------------------------
(* Properties of the page *)

\* a step in which the typing callback dispatches companyNameTypingFinished
TypingFinishedStep ==
    /\ companyName.animation = "typewriter"
    /\ companyName'.animation = "pulse"
    /\ lastCall'.op = "companyNameTypingFinished"

(* C38: mission.show() is scheduled at most once, and only by a step that
   dispatches companyNameTypingFinished while onNameFinished is still
   registered, which it is exactly until the first such event; the event is
   dispatched only when the completion callback has run (the name is visible
   by show() and the body scrolls), and the callback runs only in a frame
   that ends in UNWRAPPED_IDLE; the statement is visible only after it was
   scheduled. *)
C38_MissionAfterNameTyped ==
    [][/\ app'.scheduled <= 1
       /\ app.listening <=> app.scheduled = 0
       /\ app'.scheduled # app.scheduled =>
             /\ TypingFinishedStep
             /\ app.listening /\ ~app'.listening
       /\ TypingFinishedStep =>
             /\ app.overflowY = "auto"
             /\ app'.scheduled = 1
       /\ app'.overflowY # app.overflowY =>
             /\ animationStep = "UNWRAPPING"
             /\ animationStep' = "UNWRAPPED_IDLE"
             /\ companyName'.visible
       /\ app'.missionVisible => app'.scheduled = 1 /\ app'.timers = 0
       /\ app'.timers > 0 => ~app'.missionVisible]_vars

\* a second companyNameTypingFinished, after hide() and a second unwrap,
\* finds the listener removed and the statement already visible
C38_Witness ==
    /\ lastCall.op = "companyNameTypingFinished"
    /\ companyName.animation = "pulse"
    /\ app.missionVisible
    /\ app.scheduled = 1
    /\ ~app.listening


----------------------------------------------------------------------------
(* Properties of the window listeners *)

\* the methods of the listeners BackgroundMobile itself registers
MobileMethods == {"handleMobileResize", "handleStageTextEvent"}

(* C39: after BackgroundMobile.destroy() no listener the instance registered
   for resize, stageTextCreated or stageTextUpdated is left on window, and
   no event that arrived after destroy() invoked one of its methods. *)
C39_DestroyRemovesListeners ==
    win.destroyed =>
        /\ \A l \in win.listeners : l.fn.method \notin MobileMethods
        /\ \A i \in 1..Len(win.log) :
              win.log[i].destroyed =>
                  win.log[i].methods \cap MobileMethods = {}

====
